---- MODULE Spec2Model ----
(***************************************************************************)
(* Page cache of the CMSE storage engine: DiskManager, LRUReplacer and the *)
(* two BufferPoolManager implementations found in the repository           *)
(*   - the LRUReplacer based one  (impl = "lru"),                          *)
(*   - the page-table scanning one with FindVictim (impl = "legacy").      *)
(* Every public BufferPoolManager method holds latch_ from entry to        *)
(* return, so each method is one atomic action.  A 4 KiB page buffer is    *)
(* abstracted to the header page_id field plus one payload value.          *)
(***************************************************************************)
EXTENDS Integers, Sequences, FiniteSets, TLC

\* ------------------------------------------------------------------ bounds
\* frames in the pool, largest page id handed to the callers, and the number
\* of calls the callers make (which also caps pin counts and disk writes)
PoolSize == 2
MaxPageId == 2
MaxCalls == 7
\* worker threads of the contention scenario and the fetch / unpin rounds
\* each of them makes
NumThreads == 3
Iterations == 2
\* threads of the lock-order scenario and the calls they make in total
NumLockers == 2
LockCalls == 5
\* frame ids handed to a stand-alone LRUReplacer, and the length of the
\* arbitrary call sequences tried on it
NumReplFrames == 5
ShortLen == 3
\* largest page id given to a stand-alone DiskManager, and the number of
\* ReadPage / WritePage calls made on it
MaxDiskPage == 3
MaxDiskCalls == 4
\* threads that call one LRUReplacer at the same time, the frame ids they
\* use, and the calls they make in total
NumConcThreads == 2
NumConcFrames == 2
MaxConcCalls == 4

\* --------------------------------------------------------------- constants
INVALID_PAGE_ID == -1

Frames == 0 .. (PoolSize - 1)
Threads == 1 .. NumThreads
PageIds == 0 .. MaxPageId
\* payload bytes as seen by a caller: all zero (0) or written (1)
Payloads == {0, 1}
NoFrame == -1

VARIABLES impl, pages, free_list, page_table, replacer, disk,
          next_page_id, num_flushes, lastOp, calls, declared, threads

vars == << impl, pages, free_list, page_table, replacer, disk,
           next_page_id, num_flushes, lastOp, calls, declared, threads >>

\* ----------------------------------------------------------------- helpers
RECURSIVE SeqRemove(_, _)
SeqRemove(s, x) ==
    IF s = << >> THEN << >>
    ELSE IF Head(s) = x THEN SeqRemove(Tail(s), x)
         ELSE << Head(s) >> \o SeqRemove(Tail(s), x)

SeqElems(s) == { s[i] : i \in 1 .. Len(s) }

\* Page::ResetMemory : memset(data_, 0, PAGE_SIZE); the header page_id
\* becomes 0, not INVALID_PAGE_ID.
ZeroData == [page_id |-> 0, payload |-> 0]

ResetMemory(pg) == [pg EXCEPT !.data_ = ZeroData]

GetPageId(pg) == pg.data_.page_id

\* The state of one BufferPoolManager together with its DiskManager.
St == [pages |-> pages, free_list |-> free_list, page_table |-> page_table,
       replacer |-> replacer, disk |-> disk, next_page_id |-> next_page_id,
       num_flushes |-> num_flushes]

Commit(s) ==
    /\ pages' = s.pages
    /\ free_list' = s.free_list
    /\ page_table' = s.page_table
    /\ replacer' = s.replacer
    /\ disk' = s.disk
    /\ next_page_id' = s.next_page_id
    /\ num_flushes' = s.num_flushes

\* page_table_.find(p) != end()
InTable(s, p) == p \in DOMAIN s.page_table

\* page_table_.erase(p)
TableErase(pt, p) == [q \in (DOMAIN pt) \ {p} |-> pt[q]]

\* page_table_[p] = f
TableSet(pt, p, f) == [q \in (DOMAIN pt) \cup {p} |-> IF q = p THEN f ELSE pt[q]]

\* ------------------------------------------------------------- DiskManager
\* DiskManager::ReadPage : bytes at page_id * PAGE_SIZE, zero filled past EOF.
ReadPage(s, page_id) ==
    IF page_id \in DOMAIN s.disk THEN s.disk[page_id] ELSE ZeroData

\* A WritePage that cuts the file off behind the page it wrote.
WritePage_Truncates(s, page_id, data) ==
    [s EXCEPT !.disk = [q \in { r \in DOMAIN s.disk : r <= page_id } |->
                          IF q = page_id THEN data ELSE s.disk[q]],
              !.num_flushes = @ + 1]

\* DiskManager::WritePage : a seek to a negative page id's offset fails and
\* the stream write is dropped; num_flushes_ is incremented regardless.
WritePage(s, page_id, data) ==
    [s EXCEPT !.disk = IF page_id \in DOMAIN s.disk
                       THEN [@ EXCEPT ![page_id] = data] ELSE @,
              !.num_flushes = @ + 1]

\* An allocator that hands out the same identifier again.
AllocatePage_Reuses(s) == s

\* DiskManager::AllocatePage : return next_page_id_++
AllocatePage(s) == [s EXCEPT !.next_page_id = @ + 1]

\* ------------------------------------------------------------- LRUReplacer
\* lru_list_ : front (index 1) = most recently used, back = victim.
\* lru_map_  : abstracted to its key set.
ReplacerVictimFound(r) == r.lru_list # << >>

\* A replacer that reports the most recently used frame as the victim.
ReplacerVictimFrame_Front(r) == r.lru_list[1]

ReplacerVictimFrame(r) == r.lru_list[Len(r.lru_list)]

ReplacerVictim(r) ==
    IF r.lru_list = << >> THEN r
    ELSE [lru_list |-> SubSeq(r.lru_list, 1, Len(r.lru_list) - 1),
          lru_map |-> r.lru_map \ {r.lru_list[Len(r.lru_list)]}]

\* A Pin that leaves the frame with the replacer.
ReplacerPin_Keeps(r, f) == r

\* A Pin that rebuilds the list from the map's key set, in ascending order
\* of the frame ids, losing the recency order.
ReplacerPin_Reorders(r, f) ==
    IF f \in r.lru_map
    THEN LET keep == r.lru_map \ {f}
             Sorted[S \in SUBSET keep] ==
                 IF S = {} THEN << >>
                 ELSE LET m == CHOOSE x \in S : \A y \in S : x >= y
                      IN << m >> \o Sorted[S \ {m}]
         IN [lru_list |-> Sorted[keep], lru_map |-> keep]
    ELSE r

ReplacerPin(r, f) ==
    IF f \in r.lru_map
    THEN [lru_list |-> SeqRemove(r.lru_list, f), lru_map |-> r.lru_map \ {f}]
    ELSE r

\* An Unpin that inserts the frame at the victim end of the list.
ReplacerUnpin_Back(r, f) ==
    IF f \in r.lru_map THEN r
    ELSE [lru_list |-> r.lru_list \o << f >>, lru_map |-> r.lru_map \cup {f}]

\* An Unpin that moves a frame already in the list to the front.
ReplacerUnpin_MovesToFront(r, f) ==
    [lru_list |-> << f >> \o SeqRemove(r.lru_list, f), lru_map |-> r.lru_map \cup {f}]

ReplacerUnpin(r, f) ==
    IF f \in r.lru_map THEN r
    ELSE [lru_list |-> << f >> \o r.lru_list, lru_map |-> r.lru_map \cup {f}]

ReplacerSize(r) == Len(r.lru_list)

\* A FindFreeFrame that, with the free list empty, takes frame 0 without
\* asking the replacer, pinned or not.
FindFreeFrame_TakesPinned(s) ==
    IF s.free_list # << >>
    THEN [found |-> TRUE, frame_id |-> Head(s.free_list),
          s |-> [s EXCEPT !.free_list = Tail(@)]]
    ELSE [found |-> TRUE, frame_id |-> 0,
          s |-> [s EXCEPT !.replacer = ReplacerPin(@, 0),
                          !.page_table = TableErase(@, GetPageId(s.pages[0])),
                          !.pages[0] = [data_ |-> ZeroData,
                                        pin_count_ |-> 0,
                                        is_dirty_ |-> FALSE]]]

\* A FindFreeFrame that gives up once the free list is empty, without
\* asking the replacer for a victim.
FindFreeFrame_FreeListOnly(s) ==
    IF s.free_list # << >>
    THEN [found |-> TRUE, frame_id |-> Head(s.free_list),
          s |-> [s EXCEPT !.free_list = Tail(@)]]
    ELSE [found |-> FALSE, frame_id |-> NoFrame, s |-> s]

\* A FindFreeFrame that gives a dirty victim's frame away without writing it
\* back.
FindFreeFrame_DropsDirty(s) ==
    IF s.free_list # << >>
    THEN [found |-> TRUE, frame_id |-> Head(s.free_list),
          s |-> [s EXCEPT !.free_list = Tail(@)]]
    ELSE IF ReplacerVictimFound(s.replacer)
    THEN LET f == ReplacerVictimFrame(s.replacer)
         IN [found |-> TRUE, frame_id |-> f,
             s |-> [s EXCEPT !.replacer = ReplacerVictim(@),
                             !.page_table = TableErase(@, GetPageId(s.pages[f])),
                             !.pages[f] = [data_ |-> ZeroData,
                                           pin_count_ |-> 0,
                                           is_dirty_ |-> FALSE]]]
    ELSE [found |-> FALSE, frame_id |-> NoFrame, s |-> s]

\* ------------------------------------------- BufferPoolManager (LRU build)
\* FindFreeFrame : result record [found, frame_id, s].
FindFreeFrame(s) ==
    IF s.free_list # << >>
    THEN [found |-> TRUE, frame_id |-> Head(s.free_list),
          s |-> [s EXCEPT !.free_list = Tail(@)]]
    ELSE IF ReplacerVictimFound(s.replacer)
    THEN LET f  == ReplacerVictimFrame(s.replacer)
             s1 == [s EXCEPT !.replacer = ReplacerVictim(@)]
             vp == s1.pages[f]
             s2 == IF vp.is_dirty_
                   THEN WritePage(s1, GetPageId(vp), vp.data_)
                   ELSE s1
             s3 == [s2 EXCEPT !.page_table = TableErase(@, GetPageId(vp)),
                              !.pages[f] = [data_ |-> ZeroData,
                                            pin_count_ |-> 0,
                                            is_dirty_ |-> FALSE]]
         IN [found |-> TRUE, frame_id |-> f, s |-> s3]
    ELSE [found |-> FALSE, frame_id |-> NoFrame, s |-> s]

\* Ghost record of the last call: its name and whether it returned true / a
\* non-null Page* (the page id argument is not recorded).
Op(name, pid, ok) == [op |-> name, ok |-> ok]

\* One more step made by the callers (calls is capped by MaxCalls); the
\* threads of the contention scenario are not involved.
Called == calls < MaxCalls /\ calls' = calls + 1 /\ UNCHANGED threads

\* Ghost: declared[p] is the content of page p's frame at the last successful
\* unpin(p, true), or Undeclared when a caller has written to the frame
\* since, or the page was created anew or deleted.
Undeclared == [page_id |-> INVALID_PAGE_ID, payload |-> 0]

DeclareOnUnpin(p, is_dirty, ok, s) ==
    declared' = IF ok /\ is_dirty
                THEN [declared EXCEPT ![p] = s.pages[s.page_table[p]].data_]
                ELSE declared

Forget(ps) == declared' = [p \in PageIds |-> IF p \in ps THEN Undeclared ELSE declared[p]]

\* A hit that counts the pin but leaves the frame with the replacer.
FetchHit_NoPin(s, f) == [s EXCEPT !.pages[f].pin_count_ = @ + 1]

\* FetchPage step 1, the page is in the pool: the frame is taken from the
\* replacer and its pin count goes up by one; no disk access.
FetchHit(s, f) ==
    [s EXCEPT !.replacer = ReplacerPin(@, f),
              !.pages[f].pin_count_ = @ + 1]

\* A miss that sets the frame up without reading the page from the disk.
FetchLoad_NoRead(s, f, page_id) ==
    [s EXCEPT
       !.pages[f] = [data_ |-> [ZeroData EXCEPT !.page_id = page_id],
                     pin_count_ |-> 1,
                     is_dirty_ |-> FALSE],
       !.page_table = TableSet(@, page_id, f),
       !.replacer = ReplacerPin(@, f)]

\* FetchPage steps 3 to 5, a frame was found: ResetMemory, ReadPage into the
\* whole buffer, the header page id is set to page_id, pin count 1, clean,
\* page-table entry, replacer Pin.
FetchLoad(s, f, page_id) ==
    [s EXCEPT
       !.pages[f] = [data_ |-> [ReadPage(s, page_id) EXCEPT !.page_id = page_id],
                     pin_count_ |-> 1,
                     is_dirty_ |-> FALSE],
       !.page_table = TableSet(@, page_id, f),
       !.replacer = ReplacerPin(@, f)]

\* FetchPage as a function of the state: [ok, s], ok = a non-null Page*.
FetchResult(s, page_id) ==
    IF InTable(s, page_id)
    THEN [ok |-> TRUE, s |-> FetchHit(s, s.page_table[page_id])]
    ELSE LET r == FindFreeFrame(s) IN
         IF ~ r.found
         THEN [ok |-> FALSE, s |-> s]
         ELSE [ok |-> TRUE, s |-> FetchLoad(r.s, r.frame_id, page_id)]

FetchPage(page_id) ==
    /\ impl = "lru"
    /\ UNCHANGED declared
    /\ LET r == FetchResult(St, page_id) IN
       /\ Commit(r.s)
       /\ lastOp' = Op("fetch", page_id, r.ok)
    /\ Called
    /\ UNCHANGED impl

\* A new page whose header is left zeroed.
NewPageData_NoStamp(pid) == ZeroData

\* NewPage step 3: ResetMemory, then the header is initialised with the
\* allocated page id.
NewPageData(pid) == [page_id |-> pid, payload |-> 0]

\* A NewPage that takes its identifier from the allocator before it looks for
\* a frame, so that a refused call uses an identifier up.
NewResult_AllocatesFirst(s) ==
    LET s0 == AllocatePage(s)
        r  == FindFreeFrame(s0) IN
    IF ~ r.found
    THEN [ok |-> FALSE, page_id |-> INVALID_PAGE_ID, s |-> s0]
    ELSE LET f   == r.frame_id
             pid == s.next_page_id
         IN [ok |-> TRUE, page_id |-> pid,
             s |-> [r.s EXCEPT
                      !.pages[f] = [data_ |-> NewPageData(pid),
                                    pin_count_ |-> 1,
                                    is_dirty_ |-> TRUE],
                      !.page_table = TableSet(@, pid, f),
                      !.replacer = ReplacerPin(@, f)]]

\* NewPage as a function of the state: [ok, page_id, s].
NewResult(s) ==
    LET r == FindFreeFrame(s) IN
    IF ~ r.found
    THEN [ok |-> FALSE, page_id |-> INVALID_PAGE_ID, s |-> s]
    ELSE LET f   == r.frame_id
             pid == r.s.next_page_id
             s1  == AllocatePage(r.s)
         IN [ok |-> TRUE, page_id |-> pid,
             s |-> [s1 EXCEPT
                      !.pages[f] = [data_ |-> NewPageData(pid),
                                    pin_count_ |-> 1,
                                    is_dirty_ |-> TRUE],
                      !.page_table = TableSet(@, pid, f),
                      !.replacer = ReplacerPin(@, f)]]

NewPage ==
    /\ impl = "lru"
    /\ LET r == NewResult(St) IN
       IF ~ r.ok
       THEN /\ Commit(r.s)
            /\ UNCHANGED declared
            /\ lastOp' = Op("new", INVALID_PAGE_ID, FALSE)
       ELSE /\ r.page_id <= MaxPageId
            /\ Commit(r.s)
            /\ Forget({r.page_id})
            /\ lastOp' = Op("new", r.page_id, TRUE)
    /\ Called
    /\ UNCHANGED impl

\* An unpin that drops every pin on the frame at once.
UnpinFrame_ClearsPin(s, f, is_dirty) ==
    [s EXCEPT !.pages[f].pin_count_ = 0,
              !.pages[f].is_dirty_ = IF is_dirty THEN TRUE ELSE @,
              !.replacer = ReplacerUnpin(@, f)]

\* An unpin that writes a frame declared dirty through to the disk.
UnpinFrame_WriteThrough(s, f, is_dirty) ==
    LET s1 == [s EXCEPT !.pages[f].pin_count_ = @ - 1,
                        !.pages[f].is_dirty_ = IF is_dirty THEN TRUE ELSE @]
        s2 == IF is_dirty
              THEN WritePage(s1, GetPageId(s1.pages[f]), s1.pages[f].data_)
              ELSE s1
    IN IF s2.pages[f].pin_count_ = 0
       THEN [s2 EXCEPT !.replacer = ReplacerUnpin(@, f)]
       ELSE s2

\* An unpin that stores the caller's is_dirty in the flag, clearing it on
\* unpin(p, false).
UnpinFrame_AssignsDirty(s, f, is_dirty) ==
    LET s1 == [s EXCEPT !.pages[f].pin_count_ = @ - 1,
                        !.pages[f].is_dirty_ = is_dirty]
    IN IF s1.pages[f].pin_count_ = 0
       THEN [s1 EXCEPT !.replacer = ReplacerUnpin(@, f)]
       ELSE s1

\* UnpinPage, past its two early returns: the pin count is decremented, the
\* dirty flag is raised (never cleared), and a frame whose pin count reaches
\* 0 is handed to the replacer.  Nothing is written to the disk.
UnpinFrame(s, f, is_dirty) ==
    LET s1 == [s EXCEPT !.pages[f].pin_count_ = @ - 1,
                        !.pages[f].is_dirty_ = IF is_dirty THEN TRUE ELSE @]
    IN IF s1.pages[f].pin_count_ = 0
       THEN [s1 EXCEPT !.replacer = ReplacerUnpin(@, f)]
       ELSE s1

\* UnpinPage as a function of the state: [ok, s].
UnpinResult(s, page_id, is_dirty) ==
    IF ~ InTable(s, page_id)
    THEN [ok |-> FALSE, s |-> s]
    ELSE LET f == s.page_table[page_id] IN
         IF s.pages[f].pin_count_ <= 0
         THEN [ok |-> FALSE, s |-> s]
         ELSE [ok |-> TRUE, s |-> UnpinFrame(s, f, is_dirty)]

UnpinPage(page_id, is_dirty) ==
    /\ impl = "lru"
    /\ LET r == UnpinResult(St, page_id, is_dirty) IN
       /\ Commit(r.s)
       /\ DeclareOnUnpin(page_id, is_dirty, r.ok, r.s)
       /\ lastOp' = Op("unpin", page_id, r.ok)
    /\ Called
    /\ UNCHANGED impl

\* A flush that writes only a frame whose dirty flag is set.
FlushFrame_OnlyIfDirty(s, page_id, f) ==
    IF s.pages[f].is_dirty_
    THEN [WritePage(s, page_id, s.pages[f].data_) EXCEPT !.pages[f].is_dirty_ = FALSE]
    ELSE s

\* FlushPage, once the page is found: the frame is written whatever its
\* dirty flag and pin count, and the flag is cleared.
FlushFrame(s, page_id, f) ==
    [WritePage(s, page_id, s.pages[f].data_) EXCEPT !.pages[f].is_dirty_ = FALSE]

FlushPage(page_id) ==
    /\ impl = "lru"
    /\ UNCHANGED declared
    /\ LET s == St IN
       IF ~ InTable(s, page_id)
       THEN /\ Commit(s)
            /\ lastOp' = Op("flush", page_id, FALSE)
       ELSE LET f == s.page_table[page_id]
            IN /\ Commit(FlushFrame(s, page_id, f))
               /\ lastOp' = Op("flush", page_id, TRUE)
    /\ Called
    /\ UNCHANGED impl

\* A delete that lets a pinned page go.
DeleteBlocked_Never(s, f) == FALSE

\* DeletePage step 2: a pinned page cannot be deleted.
DeleteBlocked(s, f) == s.pages[f].pin_count_ > 0

\* A delete of a page that is not in the pool reporting a failure.
DeleteAbsentOk_False == FALSE

\* DeletePage step 1: a page that is not in the pool counts as deleted.
DeleteAbsentOk == TRUE

\* A delete that saves a dirty frame before giving it up.
DeleteFrame_WritesBack(s, page_id, f) ==
    LET s1 == IF s.pages[f].is_dirty_
              THEN WritePage(s, page_id, s.pages[f].data_)
              ELSE s
    IN [s1 EXCEPT
          !.replacer = ReplacerPin(@, f),
          !.page_table = TableErase(@, page_id),
          !.pages[f] = [data_ |-> [page_id |-> INVALID_PAGE_ID, payload |-> 0],
                        pin_count_ |-> 0,
                        is_dirty_ |-> FALSE],
          !.free_list = Append(@, f)]

\* DeletePage steps 3 to 6: the frame leaves the replacer and the page
\* table, is zeroed, gets the invalid page id and joins the free list; no
\* disk write is made.
DeleteFrame(s, page_id, f) ==
    [s EXCEPT
       !.replacer = ReplacerPin(@, f),
       !.page_table = TableErase(@, page_id),
       !.pages[f] = [data_ |-> [page_id |-> INVALID_PAGE_ID, payload |-> 0],
                     pin_count_ |-> 0,
                     is_dirty_ |-> FALSE],
       !.free_list = Append(@, f)]

DeletePage(page_id) ==
    /\ impl = "lru"
    /\ LET s == St IN
       IF ~ InTable(s, page_id)
       THEN /\ Commit(s)
            /\ UNCHANGED declared
            /\ lastOp' = Op("delete", page_id, DeleteAbsentOk)
       ELSE LET f == s.page_table[page_id] IN
            IF DeleteBlocked(s, f)
            THEN /\ Commit(s)
                 /\ UNCHANGED declared
                 /\ lastOp' = Op("delete", page_id, FALSE)
            ELSE /\ Commit(DeleteFrame(s, page_id, f))
                 /\ Forget({page_id})
                 /\ lastOp' = Op("delete", page_id, TRUE)
    /\ Called
    /\ UNCHANGED impl

\* A flush-all loop that returns after the first page-table entry.
FlushEach_OnlyFirst(s, todo) ==
    IF todo = {} THEN s
    ELSE LET pid == CHOOSE p \in todo : TRUE
             fid == s.page_table[pid]
         IN IF s.pages[fid].is_dirty_
            THEN [WritePage(s, pid, s.pages[fid].data_)
                    EXCEPT !.pages[fid].is_dirty_ = FALSE]
            ELSE s

\* FlushAllPages : the loop over page_table_; each dirty frame is written
\* once and cleaned, so the iteration order does not matter.
RECURSIVE FlushEach(_, _)
FlushEach(s, todo) ==
    IF todo = {} THEN s
    ELSE LET pid == CHOOSE p \in todo : TRUE
             fid == s.page_table[pid]
             s1  == IF s.pages[fid].is_dirty_
                    THEN [WritePage(s, pid, s.pages[fid].data_)
                            EXCEPT !.pages[fid].is_dirty_ = FALSE]
                    ELSE s
         IN FlushEach(s1, todo \ {pid})

FlushAllPages ==
    /\ impl = "lru"
    /\ UNCHANGED declared
    /\ LET s1 == FlushEach(St, DOMAIN page_table) IN
       /\ Commit(s1)
       /\ lastOp' = Op("flush_all", INVALID_PAGE_ID, TRUE)
    /\ Called
    /\ UNCHANGED impl

\* ---------------------------------------- BufferPoolManager (legacy build)
\* FindVictim : the first page_table_ entry, in the unordered_map's iteration
\* order, whose frame has pin_count_ 0; the order is unspecified, so any
\* such entry may be the one found.
FindVictim(s) == { s.page_table[p] : p \in { q \in DOMAIN s.page_table :
                                            s.pages[s.page_table[q]].pin_count_ = 0 } }

\* The frames NewPage / FetchPage may obtain: the head of the free list, or a
\* frame found by FindVictim; the result carries the state after the pop.
LegacyObtain(s) ==
    IF s.free_list # << >>
    THEN { [frame_id |-> Head(s.free_list), s |-> [s EXCEPT !.free_list = Tail(@)]] }
    ELSE { [frame_id |-> f, s |-> s] : f \in FindVictim(s) }

\* "Remove old mapping": erase the entry keyed by the frame's header page id.
LegacyEraseOld(s, f) ==
    IF GetPageId(s.pages[f]) # INVALID_PAGE_ID
    THEN [s EXCEPT !.page_table = TableErase(@, GetPageId(s.pages[f]))]
    ELSE s

LegacyNewPage ==
    /\ impl = "legacy"
    /\ LET s == St IN
       IF LegacyObtain(s) = {}
       THEN /\ Commit(s)
            /\ UNCHANGED declared
            /\ lastOp' = Op("new", INVALID_PAGE_ID, FALSE)
       ELSE \E r \in LegacyObtain(s) :
            LET f   == r.frame_id
                pg  == r.s.pages[f]
                \* the dirty victim is written twice (GetData() - sizeof(PageHeader)
                \* and GetHeader() are the same address)
                s1  == IF pg.is_dirty_
                       THEN WritePage(WritePage(r.s, GetPageId(pg), pg.data_),
                                      GetPageId(pg), pg.data_)
                       ELSE r.s
                s2  == LegacyEraseOld(s1, f)
                pid == s2.next_page_id
                s3  == AllocatePage(s2)
                s4  == [s3 EXCEPT
                          !.pages[f] = [data_ |-> [page_id |-> pid, payload |-> 0],
                                        pin_count_ |-> 1,
                                        is_dirty_ |-> FALSE],
                          !.page_table = TableSet(@, pid, f)]
            IN /\ pid <= MaxPageId
               /\ Commit(s4)
               /\ Forget({pid})
               /\ lastOp' = Op("new", pid, TRUE)
    /\ Called
    /\ UNCHANGED impl

LegacyFetchPage(page_id) ==
    /\ impl = "legacy"
    /\ UNCHANGED declared
    /\ LET s == St IN
       IF InTable(s, page_id)
       THEN LET f == s.page_table[page_id] IN
            /\ Commit([s EXCEPT !.pages[f].pin_count_ = @ + 1])
            /\ lastOp' = Op("fetch", page_id, TRUE)
       ELSE IF LegacyObtain(s) = {}
       THEN /\ Commit(s)
            /\ lastOp' = Op("fetch", page_id, FALSE)
       ELSE \E r \in LegacyObtain(s) :
            LET f  == r.frame_id
                pg == r.s.pages[f]
                s1 == IF pg.is_dirty_
                      THEN WritePage(r.s, GetPageId(pg), pg.data_)
                      ELSE r.s
                s2 == LegacyEraseOld(s1, f)
                \* the header is whatever the disk holds: it is not stamped
                s3 == [s2 EXCEPT
                         !.pages[f] = [data_ |-> ReadPage(s2, page_id),
                                       pin_count_ |-> 1,
                                       is_dirty_ |-> FALSE],
                         !.page_table = TableSet(@, page_id, f)]
            IN /\ Commit(s3)
               /\ lastOp' = Op("fetch", page_id, TRUE)
    /\ Called
    /\ UNCHANGED impl

LegacyUnpinPage(page_id, is_dirty) ==
    /\ impl = "legacy"
    /\ LET s == St IN
       IF ~ InTable(s, page_id)
       THEN /\ Commit(s)
            /\ UNCHANGED declared
            /\ lastOp' = Op("unpin", page_id, FALSE)
       ELSE LET f  == s.page_table[page_id]
                s1 == [s EXCEPT !.pages[f].is_dirty_ = IF is_dirty THEN TRUE ELSE @,
                                !.pages[f].pin_count_ = IF @ > 0 THEN @ - 1 ELSE @]
            IN /\ Commit(s1)
               /\ DeclareOnUnpin(page_id, is_dirty, TRUE, s1)
               /\ lastOp' = Op("unpin", page_id, TRUE)
    /\ Called
    /\ UNCHANGED impl

LegacyFlushPage(page_id) ==
    /\ impl = "legacy"
    /\ UNCHANGED declared
    /\ LET s == St IN
       IF ~ InTable(s, page_id)
       THEN /\ Commit(s)
            /\ lastOp' = Op("flush", page_id, FALSE)
       ELSE LET f  == s.page_table[page_id]
                s1 == WritePage(s, page_id, s.pages[f].data_)
            IN /\ Commit([s1 EXCEPT !.pages[f].is_dirty_ = FALSE])
               /\ lastOp' = Op("flush", page_id, TRUE)
    /\ Called
    /\ UNCHANGED impl

\* FlushAll : every order in which the loop may visit page_table_; a dirty
\* frame is written at the offset of its header page id.
RECURSIVE LegacyFlushEach(_, _)
LegacyFlushEach(s, todo) ==
    IF todo = {} THEN {s}
    ELSE UNION { LET fid == s.page_table[pid]
                     pg  == s.pages[fid]
                     s1  == IF pg.is_dirty_
                            THEN [WritePage(s, GetPageId(pg), pg.data_)
                                    EXCEPT !.pages[fid].is_dirty_ = FALSE]
                            ELSE s
                 IN LegacyFlushEach(s1, todo \ {pid}) : pid \in todo }

LegacyFlushAll ==
    /\ impl = "legacy"
    /\ UNCHANGED declared
    /\ \E s1 \in LegacyFlushEach(St, DOMAIN page_table) : Commit(s1)
    /\ lastOp' = Op("flush_all", INVALID_PAGE_ID, TRUE)
    /\ Called
    /\ UNCHANGED impl

LegacyDeletePage(page_id) ==
    /\ impl = "legacy"
    /\ LET s == St IN
       IF ~ InTable(s, page_id)
       THEN /\ Commit(s)
            /\ UNCHANGED declared
            /\ lastOp' = Op("delete", page_id, TRUE)
       ELSE LET f == s.page_table[page_id] IN
            IF s.pages[f].pin_count_ > 0
            THEN /\ Commit(s)
                 /\ UNCHANGED declared
                 /\ lastOp' = Op("delete", page_id, FALSE)
            ELSE /\ Commit([s EXCEPT
                              !.page_table = TableErase(@, page_id),
                              !.pages[f] = [data_ |-> [page_id |-> INVALID_PAGE_ID,
                                                       payload |-> 0],
                                            pin_count_ |-> 0,
                                            is_dirty_ |-> FALSE],
                              !.free_list = Append(@, f)])
                 /\ Forget({page_id})
                 /\ lastOp' = Op("delete", page_id, TRUE)
    /\ Called
    /\ UNCHANGED impl

\* ------------------------------------------------------------------ callers
\* A caller that holds a pin on frame f writes payload bytes through the
\* Page pointer it was handed; no latch is taken.
ClientWrite(f, v) ==
    /\ pages[f].pin_count_ > 0
    /\ pages[f].data_.payload # v
    /\ pages' = [pages EXCEPT ![f].data_.payload = v]
    /\ Forget({p \in DOMAIN page_table : page_table[p] = f})
    /\ lastOp' = Op("write", INVALID_PAGE_ID, TRUE)
    /\ Called
    /\ UNCHANGED << impl, free_list, page_table, replacer, disk,
                    next_page_id, num_flushes >>

\* ------------------------------------------------- single page contention
\* TestSinglePageContention on the LRU build: the main thread creates page 0
\* and unpins it, NumThreads workers each run Iterations rounds of
\* FetchPage(0); UnpinPage(0, d), and after the join the main thread fetches
\* page 0 once more.  Each call holds latch_ for its whole body, so the
\* interleavings are those of whole calls.
ContentionPage == 0

ThreadCall(name, ok) ==
    /\ lastOp' = Op(name, ContentionPage, ok)
    /\ calls' = calls + 1
    /\ UNCHANGED impl

MainNew ==
    /\ threads.main = "new"
    /\ LET r == NewResult(St) IN
       /\ Commit(r.s)
       /\ Forget({r.page_id})
       /\ threads' = [threads EXCEPT
                        !.main = IF r.ok /\ r.page_id = ContentionPage
                                 THEN "unpin" ELSE "exit"]
       /\ ThreadCall("new", r.ok)

MainUnpin ==
    /\ threads.main = "unpin"
    /\ LET r == UnpinResult(St, ContentionPage, FALSE) IN
       /\ Commit(r.s)
       /\ DeclareOnUnpin(ContentionPage, FALSE, r.ok, r.s)
       /\ threads' = [threads EXCEPT !.main = "run"]
       /\ ThreadCall("unpin", r.ok)

\* A) FetchPage(0), nullptr terminates; B) the page id is read from the header
ThreadFetch(t) ==
    /\ threads.main = "run"
    /\ threads.w[t].pc = "fetch"
    /\ UNCHANGED declared
    /\ LET r == FetchResult(St, ContentionPage) IN
       /\ Commit(r.s)
       /\ threads' = [threads EXCEPT
                        !.w[t].pc = IF r.ok THEN "unpin" ELSE "terminated",
                        !.w[t].seen = IF r.ok
                                      THEN GetPageId(r.s.pages[r.s.page_table[ContentionPage]])
                                      ELSE @]
       /\ ThreadCall("fetch", r.ok)

\* C) UnpinPage(0, is_dirty)
ThreadUnpin(t, is_dirty) ==
    /\ threads.main = "run"
    /\ threads.w[t].pc = "unpin"
    /\ LET r == UnpinResult(St, ContentionPage, is_dirty) IN
       /\ Commit(r.s)
       /\ DeclareOnUnpin(ContentionPage, is_dirty, r.ok, r.s)
       /\ threads' = [threads EXCEPT
                        !.w[t].iter = @ + 1,
                        !.w[t].pc = IF threads.w[t].iter + 1 >= Iterations
                                    THEN "done" ELSE "fetch"]
       /\ ThreadCall("unpin", r.ok)

\* after the join: the final FetchPage(0)
MainFinal ==
    /\ threads.main = "run"
    /\ \A t \in Threads : threads.w[t].pc = "done"
    /\ UNCHANGED declared
    /\ LET r == FetchResult(St, ContentionPage) IN
       /\ Commit(r.s)
       /\ threads' = [threads EXCEPT !.main = IF r.ok THEN "final" ELSE "final_failed"]
       /\ ThreadCall("fetch", r.ok)

\* ------------------------------------------------------ buffer full race
\* TestBufferFullRace on the LRU build: NumThreads workers (more than the
\* pool has frames) each make Iterations attempts at NewPage; a worker that
\* got a page writes into it and calls UnpinPage(new_pid, true), a worker
\* that got nullptr moves on to its next attempt.  After the join the main
\* thread calls NewPage once more.  threads.made logs the identifiers the
\* successful NewPage calls returned, in order.
RaceCall(name, ok) ==
    /\ lastOp' = Op(name, INVALID_PAGE_ID, ok)
    /\ calls' = calls + 1
    /\ UNCHANGED impl

RaceForget(p) ==
    declared' = [q \in DOMAIN declared |-> IF q = p THEN Undeclared ELSE declared[q]]

\* the iteration counter after one more pass of the for loop
RaceAdvance(w) ==
    [w EXCEPT !.iter = @ + 1,
              !.pc = IF w.iter + 1 >= Iterations THEN "done" ELSE "new"]

\* auto* page = bpm->NewPage(new_pid)
RaceNew(t) ==
    /\ threads.main = "race"
    /\ threads.w[t].pc = "new"
    /\ LET r == NewResult(St) IN
       /\ Commit(r.s)
       /\ RaceForget(r.page_id)
       /\ threads' = IF r.ok
                     THEN [threads EXCEPT !.w[t].pc = "write",
                                          !.w[t].seen = r.page_id,
                                          !.made = Append(@, r.page_id)]
                     ELSE [threads EXCEPT !.w[t] = RaceAdvance(@)]
       /\ RaceCall("new", r.ok)

\* std::snprintf(page->GetData(), ...) through the pointer, no latch held
RaceWrite(t) ==
    /\ threads.main = "race"
    /\ threads.w[t].pc = "write"
    /\ pages' = [f \in Frames |->
                   IF threads.w[t].seen \in DOMAIN page_table
                      /\ page_table[threads.w[t].seen] = f
                   THEN [pages[f] EXCEPT !.data_.payload = 1]
                   ELSE pages[f]]
    /\ RaceForget(threads.w[t].seen)
    /\ threads' = [threads EXCEPT !.w[t].pc = "unpin"]
    /\ RaceCall("write", TRUE)
    /\ UNCHANGED << free_list, page_table, replacer, disk, next_page_id, num_flushes >>

\* bpm->UnpinPage(new_pid, true)
RaceUnpin(t) ==
    /\ threads.main = "race"
    /\ threads.w[t].pc = "unpin"
    /\ LET r == UnpinResult(St, threads.w[t].seen, TRUE) IN
       /\ Commit(r.s)
       /\ DeclareOnUnpin(threads.w[t].seen, TRUE, r.ok, r.s)
       /\ threads' = [threads EXCEPT !.w[t] = RaceAdvance(@)]
       /\ RaceCall("unpin", r.ok)

\* after the join: the liveness check, one more NewPage
RaceFinal ==
    /\ threads.main = "race"
    /\ \A t \in Threads : threads.w[t].pc = "done"
    /\ LET r == NewResult(St) IN
       /\ Commit(r.s)
       /\ RaceForget(r.page_id)
       /\ threads' = IF r.ok
                     THEN [threads EXCEPT !.main = "final",
                                          !.made = Append(@, r.page_id)]
                     ELSE [threads EXCEPT !.main = "final_failed"]
       /\ RaceCall("new", r.ok)

\* ------------------------------------------------------------- lock order
\* The three mutexes and the order in which the methods take them.  Every
\* mutex is taken with std::lock_guard, that is, acquired on entry of the
\* method and released when it returns; std::mutex is not recursive.
\* A thread's todo is the sequence of acquire / release events that remain of
\* the call it is in.
Lockers == 1 .. NumLockers
LockNames == {"latch_", "mutex_", "db_io_latch_"}
LockFree == 0

Acq(l) == [e |-> "acq", l |-> l]
Rel(l) == [e |-> "rel", l |-> l]

\* LRUReplacer::Victim / Pin / Unpin : lock_guard on mutex_, no call out.
ReplacerLocks == << Acq("mutex_"), Rel("mutex_") >>

\* A disk method that calls back into the buffer pool while holding its latch.
DiskLocks_CallsBack == << Acq("db_io_latch_"), Acq("latch_"), Rel("latch_"), Rel("db_io_latch_") >>

\* DiskManager::ReadPage / WritePage / AllocatePage : lock_guard on
\* db_io_latch_, no call out.
DiskLocks == << Acq("db_io_latch_"), Rel("db_io_latch_") >>

\* FindFreeFrame : nothing with a free frame at hand, else Victim, and
\* WritePage when the victim is dirty.
FindFreeFrameLocks(s) ==
    IF s.free_list # << >> THEN << >>
    ELSE ReplacerLocks \o
         (IF ReplacerVictimFound(s.replacer)
             /\ s.pages[ReplacerVictimFrame(s.replacer)].is_dirty_
          THEN DiskLocks ELSE << >>)

RECURSIVE Repeat(_, _)
Repeat(seq, n) == IF n = 0 THEN << >> ELSE seq \o Repeat(seq, n - 1)

\* The calls made between the entry and the return of the public method o,
\* in the state s the method finds.
BodyLocks(s, o) ==
    CASE o.op = "fetch" ->
           IF InTable(s, o.page_id) THEN ReplacerLocks
           ELSE FindFreeFrameLocks(s) \o
                (IF FindFreeFrame(s).found THEN DiskLocks \o ReplacerLocks ELSE << >>)
      [] o.op = "new" ->
           FindFreeFrameLocks(s) \o
           (IF FindFreeFrame(s).found THEN DiskLocks \o ReplacerLocks ELSE << >>)
      [] o.op = "unpin" ->
           IF InTable(s, o.page_id) /\ s.pages[s.page_table[o.page_id]].pin_count_ = 1
           THEN ReplacerLocks ELSE << >>
      [] o.op = "flush" ->
           IF InTable(s, o.page_id) THEN DiskLocks ELSE << >>
      [] o.op = "delete" ->
           IF InTable(s, o.page_id) /\ ~ DeleteBlocked(s, s.page_table[o.page_id])
           THEN ReplacerLocks ELSE << >>
      [] o.op = "flush_all" ->
           Repeat(DiskLocks, Cardinality({q \in DOMAIN s.page_table :
                                            s.pages[s.page_table[q]].is_dirty_}))

\* The public method o as a function of the state: [ok, s].
LockResult(s, o) ==
    CASE o.op = "fetch" -> FetchResult(s, o.page_id)
      [] o.op = "new" -> [ok |-> NewResult(s).ok, s |-> NewResult(s).s]
      [] o.op = "unpin" -> UnpinResult(s, o.page_id, o.is_dirty)
      [] o.op = "flush" ->
           IF InTable(s, o.page_id)
           THEN [ok |-> TRUE, s |-> FlushFrame(s, o.page_id, s.page_table[o.page_id])]
           ELSE [ok |-> FALSE, s |-> s]
      [] o.op = "delete" ->
           IF ~ InTable(s, o.page_id) THEN [ok |-> DeleteAbsentOk, s |-> s]
           ELSE IF DeleteBlocked(s, s.page_table[o.page_id]) THEN [ok |-> FALSE, s |-> s]
           ELSE [ok |-> TRUE, s |-> DeleteFrame(s, o.page_id, s.page_table[o.page_id])]
      [] o.op = "flush_all" -> [ok |-> TRUE, s |-> FlushEach(s, DOMAIN s.page_table)]

LockOps ==
    { [op |-> n, page_id |-> q, is_dirty |-> FALSE] : n \in {"fetch", "flush", "delete"}, q \in PageIds }
    \cup { [op |-> "unpin", page_id |-> q, is_dirty |-> d] : q \in PageIds, d \in BOOLEAN }
    \cup { [op |-> n, page_id |-> INVALID_PAGE_ID, is_dirty |-> FALSE] : n \in {"new", "flush_all"} }

NoOp == [op |-> "none", page_id |-> INVALID_PAGE_ID, is_dirty |-> FALSE]

\* the locks thread t holds
Held(t) == { l \in LockNames : threads.owner[l] = t }

\* A thread calls a public method: its first event is the lock_guard on
\* latch_ at the top of the method.  Which method it is, and with which
\* arguments, shows once the thread is past that lock_guard.
LockBegin(t) ==
    /\ threads.main = "locks"
    /\ threads.w[t].todo = << >>
    /\ calls < LockCalls
    /\ threads' = [threads EXCEPT !.w[t] = [op |-> NoOp, pc |-> "enter",
                                            todo |-> << Acq("latch_") >>]]
    /\ calls' = calls + 1
    /\ UNCHANGED << impl, pages, free_list, page_table, replacer, disk,
                    next_page_id, num_flushes, lastOp, declared >>

\* The thread gets latch_ at the top of the method.  The body runs with
\* latch_ held throughout, so its effect on the pool is that of the whole
\* method in the state found; what remains are the nested lock events.
LockEnter(t, o) ==
    /\ threads.main = "locks"
    /\ threads.w[t].pc = "enter"
    /\ threads.owner["latch_"] = LockFree
    /\ LET r == LockResult(St, o)
       IN /\ Commit(r.s)
          /\ lastOp' = Op(o.op, o.page_id, r.ok)
          /\ declared' =
               [q \in DOMAIN declared |->
                  IF o.op = "new" /\ r.ok /\ q = NewResult(St).page_id THEN Undeclared
                  ELSE IF o.op = "delete" /\ r.ok /\ q = o.page_id /\ InTable(St, q)
                       THEN Undeclared
                  ELSE IF o.op = "unpin" /\ r.ok /\ o.is_dirty /\ q = o.page_id
                       THEN r.s.pages[r.s.page_table[q]].data_
                  ELSE declared[q]]
          /\ threads' = [threads EXCEPT
                           !.owner["latch_"] = t,
                           !.w[t].pc = "body",
                           !.w[t].op = o,
                           !.w[t].todo = BodyLocks(St, o) \o << Rel("latch_") >>]
    /\ UNCHANGED << impl, calls >>

\* a nested lock_guard is constructed: the thread blocks until the mutex is free
LockAcquire(t) ==
    /\ threads.main = "locks"
    /\ threads.w[t].pc = "body"
    /\ threads.w[t].todo # << >>
    /\ Head(threads.w[t].todo).e = "acq"
    /\ threads.owner[Head(threads.w[t].todo).l] = LockFree
    /\ threads' = [threads EXCEPT !.owner[Head(threads.w[t].todo).l] = t,
                                  !.w[t].todo = Tail(@)]
    /\ UNCHANGED << impl, pages, free_list, page_table, replacer, disk,
                    next_page_id, num_flushes, lastOp, calls, declared >>

\* a lock_guard goes out of scope
LockRelease(t) ==
    /\ threads.main = "locks"
    /\ threads.w[t].pc = "body"
    /\ threads.w[t].todo # << >>
    /\ Head(threads.w[t].todo).e = "rel"
    /\ threads' = [threads EXCEPT !.owner[Head(threads.w[t].todo).l] = LockFree,
                                  !.w[t].todo = Tail(@),
                                  !.w[t].pc = IF Len(threads.w[t].todo) = 1
                                              THEN "idle" ELSE "body",
                                  !.w[t].op = IF Len(threads.w[t].todo) = 1
                                              THEN NoOp ELSE @]
    /\ UNCHANGED << impl, pages, free_list, page_table, replacer, disk,
                    next_page_id, num_flushes, lastOp, calls, declared >>

\* ------------------------------------------------- stand-alone LRUReplacer
\* An LRUReplacer used on its own, as lru_replacer_test.cpp does: a fresh
\* replacer is given a sequence of Unpin / Pin / Victim calls (the script).
\* threads.log records, call by call, what the call returned and the replacer
\* it left behind.
ReplFrames == 1 .. NumReplFrames

EmptyReplacer == [lru_list |-> << >>, lru_map |-> {}]

U(f) == [op |-> "unpin", f |-> f]
Pn(f) == [op |-> "pin", f |-> f]
V == [op |-> "victim", f |-> NoFrame]

ReplOps == { U(f) : f \in ReplFrames } \cup { Pn(f) : f \in ReplFrames } \cup { V }

\* the victims a replacer would hand out, in order, until it is empty
RECURSIVE Drain(_)
Drain(r) ==
    IF ~ ReplacerVictimFound(r) THEN << >>
    ELSE << ReplacerVictimFrame(r) >> \o Drain(ReplacerVictim(r))

\* TestVictimOrder
ScriptVictimOrder(a, b, c) == << U(a), U(b), U(c), V, V, V, V >>
\* unpin a, unpin b, pin a, unpin c, three victims
ScriptPinBetween(a, b, c) == << U(a), U(b), Pn(a), U(c), V, V, V >>
\* TestPinning
ScriptPinning(a, b, c, d, e) == << U(a), U(b), U(c), U(d), U(e), Pn(c), Pn(d), V, V, V, V >>
\* TestReAccess
ScriptReAccess(a, b, c) == << U(a), U(b), U(c), Pn(a), U(a), V, V, V >>
\* an Unpin of a frame that is already in the replacer
ScriptUnpinTwice(a, b) == << U(a), U(b), U(a), V, V, V >>

Distinct(t) == \A i, j \in DOMAIN t : i # j => t[i] # t[j]

TestScripts ==
    { ScriptVictimOrder(t[1], t[2], t[3]) : t \in { x \in ReplFrames \X ReplFrames \X ReplFrames : Distinct(x) } }
    \cup { ScriptPinBetween(t[1], t[2], t[3]) : t \in { x \in ReplFrames \X ReplFrames \X ReplFrames : Distinct(x) } }
    \cup { ScriptReAccess(t[1], t[2], t[3]) : t \in { x \in ReplFrames \X ReplFrames \X ReplFrames : Distinct(x) } }
    \cup { ScriptUnpinTwice(t[1], t[2]) : t \in { x \in ReplFrames \X ReplFrames : Distinct(x) } }
    \cup { ScriptPinning(t[1], t[2], t[3], t[4], t[5]) :
             t \in { x \in ReplFrames \X ReplFrames \X ReplFrames \X ReplFrames \X ReplFrames : Distinct(x) } }

\* every call sequence of at most ShortLen calls
ShortScripts == UNION { [1 .. n -> ReplOps] : n \in 0 .. ShortLen }

\* a test scenario, possibly after one earlier call, or any short sequence
Scripts ==
    ShortScripts \cup TestScripts \cup { << o >> \o t : o \in ReplOps, t \in TestScripts }

ReplNext == threads.script[Len(threads.log) + 1]

ReplCall(name, ok, frame, r) ==
    /\ replacer' = r
    /\ threads' = [threads EXCEPT !.log = Append(@, [found |-> ok, frame |-> frame, after |-> r])]
    /\ lastOp' = Op(name, INVALID_PAGE_ID, ok)
    /\ calls' = calls + 1
    /\ UNCHANGED << impl, pages, free_list, page_table, disk, next_page_id,
                    num_flushes, declared >>

\* lru.Unpin(f)
ReplUnpin ==
    /\ threads.main = "replacer"
    /\ Len(threads.log) < Len(threads.script)
    /\ ReplNext.op = "unpin"
    /\ ReplCall("unpin", TRUE, NoFrame, ReplacerUnpin(replacer, ReplNext.f))

\* lru.Pin(f)
ReplPin ==
    /\ threads.main = "replacer"
    /\ Len(threads.log) < Len(threads.script)
    /\ ReplNext.op = "pin"
    /\ ReplCall("pin", TRUE, NoFrame, ReplacerPin(replacer, ReplNext.f))

\* lru.Victim(&victim)
ReplVictim ==
    /\ threads.main = "replacer"
    /\ Len(threads.log) < Len(threads.script)
    /\ ReplNext.op = "victim"
    /\ ReplCall("victim", ReplacerVictimFound(replacer),
                IF ReplacerVictimFound(replacer)
                THEN ReplacerVictimFrame(replacer) ELSE NoFrame,
                ReplacerVictim(replacer))

\* ------------------------------------------------ LRUReplacer, concurrent
\* NumConcThreads threads call Victim / Pin / Unpin / Size of one LRUReplacer.
\* Every method starts with std::lock_guard on mutex_, then works on
\* lru_list_ and afterwards on lru_map_, and gives mutex_ back when it
\* returns.  threads.owner is the holder of mutex_, threads.out the frames a
\* Victim call has handed out and no Unpin call has named since.
ConcThreads == 1 .. NumConcThreads
ConcFrames == 1 .. NumConcFrames

Sz == [op |-> "size", f |-> NoFrame]

ConcOps == { U(f) : f \in ConcFrames } \cup { Pn(f) : f \in ConcFrames } \cup { V, Sz }

NoRet == [found |-> FALSE, frame |-> NoFrame, n |-> 0]

ConcIdle == [pc |-> "idle", op |-> Sz, before |-> EmptyReplacer, ret |-> NoRet]

\* lru_list_.erase(it) : the one node the map's iterator points at, which is
\* the node nearest to the front
RECURSIVE ListErase(_, _)
ListErase(s, x) ==
    IF s = << >> THEN << >>
    ELSE IF Head(s) = x THEN Tail(s)
         ELSE << Head(s) >> \o ListErase(Tail(s), x)

\* A mutex that lets every thread in.
MutexFree_Always(owner) == TRUE

\* std::mutex : lock() returns once no thread holds the mutex
MutexFree(owner) == owner = LockFree

\* a thread calls a method of the replacer
ConcBegin(t, o) ==
    /\ threads.main = "conc"
    /\ threads.w[t].pc = "idle"
    /\ calls < MaxConcCalls
    /\ threads' = [threads EXCEPT !.w[t] = [ConcIdle EXCEPT !.pc = "lock", !.op = o]]
    /\ calls' = calls + 1
    /\ UNCHANGED << impl, pages, free_list, page_table, replacer, disk,
                    next_page_id, num_flushes, lastOp, declared >>

\* std::lock_guard<std::mutex> lock(mutex_)
ConcLock(t) ==
    /\ threads.main = "conc"
    /\ threads.w[t].pc = "lock"
    /\ MutexFree(threads.owner)
    /\ threads' = [threads EXCEPT !.owner = t,
                                  !.w[t].pc = "list",
                                  !.w[t].before = replacer]
    /\ UNCHANGED << impl, pages, free_list, page_table, replacer, disk,
                    next_page_id, num_flushes, lastOp, calls, declared >>

\* the first half of the body: the test the method makes and its change of
\* lru_list_
ConcList(t) ==
    /\ threads.main = "conc"
    /\ threads.w[t].pc = "list"
    /\ LET o == threads.w[t].op
           l == replacer.lru_list IN
       CASE o.op = "victim" ->
              IF l = << >>
              THEN /\ replacer' = replacer
                   /\ threads' = [threads EXCEPT !.w[t].pc = "unlock"]
              ELSE /\ replacer' = [replacer EXCEPT !.lru_list = SubSeq(l, 1, Len(l) - 1)]
                   /\ threads' = [threads EXCEPT
                                    !.w[t].pc = "map",
                                    !.w[t].ret = [found |-> TRUE, frame |-> l[Len(l)], n |-> 0],
                                    !.out = @ \cup {l[Len(l)]}]
         [] o.op = "pin" ->
              IF o.f \in replacer.lru_map
              THEN /\ replacer' = [replacer EXCEPT !.lru_list = ListErase(l, o.f)]
                   /\ threads' = [threads EXCEPT !.w[t].pc = "map"]
              ELSE /\ replacer' = replacer
                   /\ threads' = [threads EXCEPT !.w[t].pc = "unlock"]
         [] o.op = "unpin" ->
              IF o.f \in replacer.lru_map
              THEN /\ replacer' = replacer
                   /\ threads' = [threads EXCEPT !.w[t].pc = "unlock", !.out = @ \ {o.f}]
              ELSE /\ replacer' = [replacer EXCEPT !.lru_list = << o.f >> \o l]
                   /\ threads' = [threads EXCEPT !.w[t].pc = "map", !.out = @ \ {o.f}]
         [] o.op = "size" ->
              /\ replacer' = replacer
              /\ threads' = [threads EXCEPT
                               !.w[t].pc = "unlock",
                               !.w[t].ret = [found |-> TRUE, frame |-> NoFrame, n |-> Len(l)]]
    /\ UNCHANGED << impl, pages, free_list, page_table, disk,
                    next_page_id, num_flushes, lastOp, calls, declared >>

\* the second half of the body: lru_map_.erase / lru_map_[frame_id] = begin()
ConcMap(t) ==
    /\ threads.main = "conc"
    /\ threads.w[t].pc = "map"
    /\ LET o == threads.w[t].op IN
       replacer' = [replacer EXCEPT
                      !.lru_map = CASE o.op = "victim" -> @ \ {threads.w[t].ret.frame}
                                    [] o.op = "pin" -> @ \ {o.f}
                                    [] o.op = "unpin" -> @ \cup {o.f}]
    /\ threads' = [threads EXCEPT !.w[t].pc = "unlock"]
    /\ UNCHANGED << impl, pages, free_list, page_table, disk,
                    next_page_id, num_flushes, lastOp, calls, declared >>

\* the method returns and the lock_guard gives mutex_ back
ConcUnlock(t) ==
    /\ threads.main = "conc"
    /\ threads.w[t].pc = "unlock"
    /\ threads' = [threads EXCEPT !.owner = LockFree, !.w[t] = ConcIdle]
    /\ lastOp' = Op(threads.w[t].op.op, INVALID_PAGE_ID, threads.w[t].ret.found)
    /\ UNCHANGED << impl, pages, free_list, page_table, replacer, disk,
                    next_page_id, num_flushes, calls, declared >>

\* ------------------------------------------------ stand-alone DiskManager
\* A DiskManager used on its own on a file that starts empty.  Here disk is
\* the file itself: its domain is the pages below end-of-file, so that
\* ReadPage of a page at or beyond end-of-file takes its zero-fill branch.
\* declared[p] is the buffer of the latest WritePage(p, ..), Undeclared when
\* there was none; threads.read is what the latest ReadPage put into its
\* caller's buffer.
DiskPageIds == 0 .. MaxDiskPage

\* the buffers callers hand to WritePage
DiskData == { [page_id |-> q, payload |-> v] : q \in 0 .. 1, v \in Payloads }

\* seekp(offset) beyond end-of-file followed by write: the file grows to the
\* end of the written page and the gap below it reads as zeros
GrowFile(d, page_id) ==
    [q \in (DOMAIN d) \cup (0 .. page_id) |-> IF q \in DOMAIN d THEN d[q] ELSE ZeroData]

\* disk_manager->WritePage(p, data)
DiskWrite(p, data) ==
    /\ threads.main = "disk"
    /\ calls < MaxDiskCalls
    /\ Commit(WritePage([St EXCEPT !.disk = GrowFile(@, p)], p, data))
    /\ declared' = [declared EXCEPT ![p] = data]
    /\ lastOp' = Op("write", p, TRUE)
    /\ calls' = calls + 1
    /\ UNCHANGED << impl, threads >>

\* disk_manager->ReadPage(p, buf)
DiskRead(p) ==
    /\ threads.main = "disk"
    /\ calls < MaxDiskCalls
    /\ threads' = [threads EXCEPT !.read = [page_id |-> p, data |-> ReadPage(St, p)]]
    /\ lastOp' = Op("read", p, TRUE)
    /\ calls' = calls + 1
    /\ UNCHANGED << impl, pages, free_list, page_table, replacer, disk,
                    next_page_id, num_flushes, declared >>

\* ------------------------------------------------------ shutdown, restart
GarbageIds == {INVALID_PAGE_ID, 0}

\* ~BufferPoolManager : FlushAllPages(), then delete[] pages_ and the
\* replacer.  What is left of the pool is the page file.
Shutdown(s) == FlushEach(s, DOMAIN s.page_table)

\* new Page[pool_size_] : flags by their member initialisers, data_ left
\* indeterminate
FreshPages ==
    [Frames -> { [data_ |-> [page_id |-> g, payload |-> 0],
                  pin_count_ |-> 0, is_dirty_ |-> FALSE] : g \in GarbageIds }]

\* A DiskManager that finds its allocation counter again when it is reopened.
Reopen_RestoresCounter(s) == [s EXCEPT !.num_flushes = 0]

\* ~DiskManager, then DiskManager::DiskManager on the file that exists: it is
\* opened without truncation, and next_page_id_ and num_flushes_ start from
\* their member initialisers.
Reopen(s) == [s EXCEPT !.next_page_id = 0, !.num_flushes = 0]

\* delete bpm; delete disk_manager; then a new DiskManager on the same file
\* (it exists, so it is not truncated; next_page_id_ and num_flushes_ start
\* at 0 again) and a new BufferPoolManager over it.
Restart ==
    /\ impl = "lru"
    /\ threads.main \in {"none", "restarted"}
    /\ calls < MaxCalls
    /\ LET s1 == Reopen(Shutdown(St)) IN
       /\ disk' = s1.disk
       /\ pages' \in FreshPages
       /\ free_list' = [i \in 1 .. PoolSize |-> i - 1]
       /\ page_table' = << >>
       /\ replacer' = [lru_list |-> << >>, lru_map |-> {}]
       /\ next_page_id' = s1.next_page_id
       /\ num_flushes' = s1.num_flushes
    /\ lastOp' = Op("restart", INVALID_PAGE_ID, TRUE)
    /\ calls' = calls + 1
    /\ threads' = [threads EXCEPT !.main = "restarted"]
    /\ UNCHANGED << impl, declared >>

\* ------------------------------------------------------------------- Init
\* new Page[pool_size_] default-initialises each Page: is_dirty_ = false and
\* pin_count_ = 0 by their member initialisers, data_ is left indeterminate.
InitCommon ==
    /\ pages \in [Frames -> { [data_ |-> [page_id |-> g, payload |-> 0],
                               pin_count_ |-> 0, is_dirty_ |-> FALSE]
                              : g \in GarbageIds }]
    /\ free_list = [i \in 1 .. PoolSize |-> i - 1]
    /\ page_table = << >>
    /\ replacer = [lru_list |-> << >>, lru_map |-> {}]
    /\ disk = [p \in PageIds |-> ZeroData]
    /\ next_page_id = 0
    /\ num_flushes = 0
    /\ lastOp = Op("init", INVALID_PAGE_ID, TRUE)
    /\ calls = 0
    /\ declared = [p \in PageIds |-> Undeclared]

\* No contention scenario is running.
NoThreads ==
    [main |-> "none", made |-> << >>,
     w |-> [t \in Threads |-> [pc |-> "done", iter |-> 0, seen |-> INVALID_PAGE_ID]]]

Init == InitCommon /\ impl = "lru" /\ threads = NoThreads

Next ==
    \/ \E p \in PageIds : FetchPage(p)
    \/ NewPage
    \/ \E p \in PageIds, d \in BOOLEAN : UnpinPage(p, d)
    \/ \E p \in PageIds : FlushPage(p)
    \/ \E p \in PageIds : DeletePage(p)
    \/ FlushAllPages
    \/ \E f \in Frames, v \in Payloads : ClientWrite(f, v)

Spec == Init /\ [][Next]_vars

InitLegacy == InitCommon /\ impl = "legacy" /\ threads = NoThreads

NextLegacy ==
    \/ \E p \in PageIds : LegacyFetchPage(p)
    \/ LegacyNewPage
    \/ \E p \in PageIds, d \in BOOLEAN : LegacyUnpinPage(p, d)
    \/ \E p \in PageIds : LegacyFlushPage(p)
    \/ \E p \in PageIds : LegacyDeletePage(p)
    \/ LegacyFlushAll
    \/ \E f \in Frames, v \in Payloads : ClientWrite(f, v)

SpecLegacy == InitLegacy /\ [][NextLegacy]_vars

InitContention ==
    /\ InitCommon
    /\ impl = "lru"
    /\ threads = [main |-> "new", made |-> << >>,
                  w |-> [t \in Threads |->
                           [pc |-> "fetch", iter |-> 0, seen |-> INVALID_PAGE_ID]]]

NextContention ==
    \/ MainNew
    \/ MainUnpin
    \/ \E t \in Threads : ThreadFetch(t)
    \/ \E t \in Threads, d \in BOOLEAN : ThreadUnpin(t, d)
    \/ MainFinal

SpecContention == InitContention /\ [][NextContention]_vars

\* the page file of the race holds every page the workers can create
RacePageIds == 0 .. (NumThreads * Iterations)

InitRace ==
    /\ pages \in [Frames -> { [data_ |-> [page_id |-> g, payload |-> 0],
                               pin_count_ |-> 0, is_dirty_ |-> FALSE]
                              : g \in GarbageIds }]
    /\ free_list = [i \in 1 .. PoolSize |-> i - 1]
    /\ page_table = << >>
    /\ replacer = [lru_list |-> << >>, lru_map |-> {}]
    /\ disk = [p \in RacePageIds |-> ZeroData]
    /\ next_page_id = 0
    /\ num_flushes = 0
    /\ lastOp = Op("init", INVALID_PAGE_ID, TRUE)
    /\ calls = 0
    /\ declared = [p \in RacePageIds |-> Undeclared]
    /\ impl = "lru"
    /\ threads = [main |-> "race", made |-> << >>,
                  w |-> [t \in Threads |->
                           [pc |-> "new", iter |-> 0, seen |-> INVALID_PAGE_ID]]]

NextRace ==
    \/ \E t \in Threads : RaceNew(t)
    \/ \E t \in Threads : RaceWrite(t)
    \/ \E t \in Threads : RaceUnpin(t)
    \/ RaceFinal

SpecRace == InitRace /\ [][NextRace]_vars

\* the page file holds every page LockCalls calls can create
LockPageIds == 0 .. LockCalls

InitLocks ==
    /\ pages \in [Frames -> { [data_ |-> [page_id |-> g, payload |-> 0],
                               pin_count_ |-> 0, is_dirty_ |-> FALSE]
                              : g \in GarbageIds }]
    /\ free_list = [i \in 1 .. PoolSize |-> i - 1]
    /\ page_table = << >>
    /\ replacer = [lru_list |-> << >>, lru_map |-> {}]
    /\ disk = [p \in LockPageIds |-> ZeroData]
    /\ next_page_id = 0
    /\ num_flushes = 0
    /\ lastOp = Op("init", INVALID_PAGE_ID, TRUE)
    /\ calls = 0
    /\ declared = [p \in LockPageIds |-> Undeclared]
    /\ impl = "lru"
    /\ threads = [main |-> "locks", made |-> << >>,
                  owner |-> [l \in LockNames |-> LockFree],
                  w |-> [t \in Lockers |-> [op |-> NoOp, pc |-> "idle", todo |-> << >>]]]

NextLocks ==
    \/ \E t \in Lockers : LockBegin(t)
    \/ \E t \in Lockers, o \in LockOps : LockEnter(t, o)
    \/ \E t \in Lockers : LockAcquire(t)
    \/ \E t \in Lockers : LockRelease(t)

SpecLocks == InitLocks /\ [][NextLocks]_vars

InitReplacer ==
    /\ InitCommon
    /\ impl = "lru"
    /\ \E sc \in Scripts :
         threads = [main |-> "replacer", made |-> << >>, script |-> sc, log |-> << >>]

NextReplacer == ReplUnpin \/ ReplPin \/ ReplVictim

SpecReplacer == InitReplacer /\ [][NextReplacer]_vars

InitDisk ==
    /\ pages \in [Frames -> { [data_ |-> [page_id |-> g, payload |-> 0],
                               pin_count_ |-> 0, is_dirty_ |-> FALSE]
                              : g \in GarbageIds }]
    /\ free_list = [i \in 1 .. PoolSize |-> i - 1]
    /\ page_table = << >>
    /\ replacer = [lru_list |-> << >>, lru_map |-> {}]
    /\ disk = << >>
    /\ next_page_id = 0
    /\ num_flushes = 0
    /\ lastOp = Op("init", INVALID_PAGE_ID, TRUE)
    /\ calls = 0
    /\ declared = [p \in DiskPageIds |-> Undeclared]
    /\ impl = "lru"
    /\ threads = [main |-> "disk", made |-> << >>,
                  read |-> [page_id |-> INVALID_PAGE_ID, data |-> ZeroData]]

NextDisk ==
    \/ \E p \in DiskPageIds, data \in DiskData : DiskWrite(p, data)
    \/ \E p \in DiskPageIds : DiskRead(p)

SpecDisk == InitDisk /\ [][NextDisk]_vars

InitConc ==
    /\ InitCommon
    /\ impl = "lru"
    /\ threads = [main |-> "conc", made |-> << >>, owner |-> LockFree, out |-> {},
                  w |-> [t \in ConcThreads |-> ConcIdle]]

NextConc ==
    \/ \E t \in ConcThreads, o \in ConcOps : ConcBegin(t, o)
    \/ \E t \in ConcThreads : ConcLock(t)
    \/ \E t \in ConcThreads : ConcList(t)
    \/ \E t \in ConcThreads : ConcMap(t)
    \/ \E t \in ConcThreads : ConcUnlock(t)

SpecConc == InitConc /\ [][NextConc]_vars

\* The LRU build with its callers, shut down and reopened at any moment.
NextRestart == Next \/ Restart

SpecRestart == Init /\ [][NextRestart]_vars

\* Either build.
InitBoth == InitCommon /\ impl \in {"lru", "legacy"} /\ threads = NoThreads

NextBoth == Next \/ NextLegacy

SpecBoth == InitBoth /\ [][NextBoth]_vars

\* ================================================================= claims
\* Frame f holds a page according to the cache's own bookkeeping.
Resident(f) == \E p \in DOMAIN page_table : page_table[p] = f

InFreeList(f) == f \in SeqElems(free_list)

Tracked(f) == f \in replacer.lru_map

ClassFree(f) == InFreeList(f) /\ pages[f].pin_count_ = 0 /\ ~ Resident(f)

ClassPinned(f) == Resident(f) /\ pages[f].pin_count_ > 0 /\ ~ Tracked(f)

ClassEvictable(f) == Resident(f) /\ pages[f].pin_count_ = 0 /\ Tracked(f)

\* C1: after every returned operation each frame is in exactly one of the
\* classes free / resident-and-pinned / resident-and-in-replacer, and the
\* number of resident frames plus the free-list length equals pool_size.
C1_Partition ==
    /\ \A f \in Frames :
         /\ ClassFree(f) \/ ClassPinned(f) \/ ClassEvictable(f)
         /\ ~ (ClassFree(f) /\ ClassPinned(f))
         /\ ~ (ClassFree(f) /\ ClassEvictable(f))
         /\ ~ (ClassPinned(f) /\ ClassEvictable(f))
    /\ Cardinality({ f \in Frames : Resident(f) }) + Len(free_list) = PoolSize

\* C2: the page table maps p to f if and only if frame f, not in the free
\* list, carries p as the page id of its header.
C2_TableConsistent ==
    \A p \in PageIds, f \in Frames :
        (p \in DOMAIN page_table /\ page_table[p] = f)
            <=> (~ InFreeList(f) /\ GetPageId(pages[f]) = p)

\* C3: no two distinct frames outside the free list carry the same page id.
C3_SingleCopy ==
    \A f, g \in Frames :
        (f # g /\ ~ InFreeList(f) /\ ~ InFreeList(g)
           /\ GetPageId(pages[f]) \in PageIds)
            => GetPageId(pages[f]) # GetPageId(pages[g])

\* A call of either build.
FetchStep(p) == FetchPage(p) \/ LegacyFetchPage(p)

NewStep == NewPage \/ LegacyNewPage

UnpinStep(p, d) == UnpinPage(p, d) \/ LegacyUnpinPage(p, d)

FlushStep(p) == FlushPage(p) \/ LegacyFlushPage(p)

FlushAllStep == FlushAllPages \/ LegacyFlushAll

DeleteStep(p) == DeletePage(p) \/ LegacyDeletePage(p)

BpmVars == << pages, free_list, page_table, replacer, disk, next_page_id,
              num_flushes >>

\* page p is not resident: a fetch of it is a miss
Miss(p) == p \notin DOMAIN page_table

\* C4: while a frame's pin count is above 0 the cache leaves it alone: the
\* frame keeps its page id and its page-table entry, and only a caller's own
\* write changes its buffer.
C4_PinnedStays ==
    [][ \A f \in Frames :
          (Resident(f) /\ pages[f].pin_count_ > 0)
              => /\ GetPageId(pages'[f]) = GetPageId(pages[f])
                 /\ (lastOp'.op # "write" => pages'[f].data_ = pages[f].data_)
                 /\ \A p \in DOMAIN page_table :
                        page_table[p] = f
                            => (p \in DOMAIN page_table' /\ page_table'[p] = f) ]_vars

\* C5: no pin count is ever negative, and unpin(p, d) returns false exactly
\* when p is not resident or its pin count is already 0; otherwise it
\* returns true and takes the pin count down by one.
C5_UnpinContract ==
    [][ /\ \A f \in Frames : pages'[f].pin_count_ >= 0
        /\ \A p \in PageIds, d \in BOOLEAN :
             UnpinStep(p, d)
                 => /\ (~ lastOp'.ok)
                          <=> (Miss(p) \/ pages[page_table[p]].pin_count_ = 0)
                    /\ lastOp'.ok
                          => pages'[page_table[p]].pin_count_
                                 = pages[page_table[p]].pin_count_ - 1 ]_vars

\* every frame of the pool holds a page and is pinned
AllPinned == \A f \in Frames : Resident(f) /\ pages[f].pin_count_ > 0

MissStep == NewStep \/ \E p \in PageIds : Miss(p) /\ FetchStep(p)

\* C6: with every frame resident and pinned, new and a fetch miss return
\* null and change nothing; as soon as one resident frame has pin count 0
\* again, new and a fetch miss succeed.
C6_AllPinnedRefuses ==
    [][ /\ (AllPinned /\ MissStep) => (~ lastOp'.ok /\ UNCHANGED BpmVars)
        /\ ((\E f \in Frames : Resident(f) /\ pages[f].pin_count_ = 0) /\ MissStep)
               => lastOp'.ok ]_vars

\* the refusal happened: the last new / fetch returned null with all pinned
C6_Witness ==
    AllPinned /\ ~ lastOp.ok /\ lastOp.op \in {"new", "fetch"}

\* C7: a page whose bytes were declared by unpin(p, true), and that was not
\* written to, created anew or deleted since, is returned by a fetch with
\* exactly those bytes, whatever evictions happened in between.
C7_DirtySurvives ==
    \A p \in PageIds :
        declared[p] # Undeclared
            => LET r == FetchResult(St, p) IN
               r.ok => r.s.pages[r.s.page_table[p]].data_ = declared[p]

\* the write of a dirty victim frame f at the offset of its header page id
EvictionWrite(f) ==
    /\ pages[f].is_dirty_ /\ pages[f].pin_count_ = 0 /\ ~ InFreeList(f)
    /\ pages'[f].pin_count_ = 1
    /\ disk' = [disk EXCEPT ![GetPageId(pages[f])] = pages[f].data_]
    /\ num_flushes' = num_flushes + 1

\* C8: unpin, whatever its dirty argument, writes nothing: the disk and the
\* write counter are as before.  The disk image and the counter change only
\* in flush, in flush_all, and in a new / fetch that evicts a dirty frame.
C8_UnpinNeverWrites ==
    [][ /\ \A p \in PageIds, d \in BOOLEAN :
             UnpinStep(p, d) => (disk' = disk /\ num_flushes' = num_flushes)
        /\ (disk' # disk \/ num_flushes' # num_flushes)
               => \/ lastOp'.op \in {"flush", "flush_all"}
                  \/ /\ lastOp'.op \in {"new", "fetch"}
                     /\ \E f \in Frames : EvictionWrite(f) ]_vars

\* a page was unpinned dirty and its bytes are not on the disk
C8_Witness ==
    /\ lastOp = Op("unpin", INVALID_PAGE_ID, TRUE)
    /\ \E p \in DOMAIN page_table :
          /\ pages[page_table[p]].is_dirty_
          /\ pages[page_table[p]].pin_count_ = 0
          /\ pages[page_table[p]].data_.payload = 1
          /\ disk[p] # pages[page_table[p]].data_

\* C9: flush(p) of a resident page writes the frame to the offset of p,
\* whatever the dirty flag and the pin count, adds one to the write counter,
\* clears the dirty flag, returns true and changes nothing else.
C9_FlushUnconditional ==
    [][ \A p \in DOMAIN page_table :
          FlushStep(p)
              => LET f == page_table[p] IN
                 /\ lastOp'.ok
                 /\ num_flushes' = num_flushes + 1
                 /\ disk' = [disk EXCEPT ![p] = pages[f].data_]
                 /\ pages' = [pages EXCEPT ![f].is_dirty_ = FALSE]
                 /\ UNCHANGED << free_list, page_table, replacer, next_page_id >> ]_vars

\* the only page ever loaded was fetched (so it is clean and pinned), and
\* its flush was counted
C9_Witness ==
    /\ calls = 2 /\ next_page_id = 0
    /\ lastOp = Op("flush", INVALID_PAGE_ID, TRUE)
    /\ num_flushes = 1
    /\ \E p \in DOMAIN page_table :
          pages[page_table[p]].pin_count_ = 1 /\ ~ pages[page_table[p]].is_dirty_

C11_DeletePinnedRefused ==
    [][ \A p \in DOMAIN page_table :
          DeleteStep(p)
              => IF pages[page_table[p]].pin_count_ > 0
                 THEN ~ lastOp'.ok /\ UNCHANGED BpmVars
                 ELSE lastOp'.ok ]_vars

\* a delete has just been refused, and the page is still there, pinned
C11_Witness ==
    /\ lastOp = Op("delete", INVALID_PAGE_ID, FALSE)
    /\ \E p \in DOMAIN page_table : pages[page_table[p]].pin_count_ > 0

\* C12: delete(p) of a page that is not resident returns true, reads and
\* writes no disk page and changes no frame, page table, free list or
\* replacer; a successful delete leaves p not resident, so a second
\* delete(p) is of this kind.
C12_DeleteIdempotent ==
    [][ \A p \in PageIds :
          DeleteStep(p)
              => /\ Miss(p) => (lastOp'.ok /\ UNCHANGED BpmVars)
                 /\ lastOp'.ok => p \notin DOMAIN page_table' ]_vars

\* the first call made on the pool was a delete, and it returned true
C12_Witness ==
    calls = 1 /\ lastOp = Op("delete", INVALID_PAGE_ID, TRUE)

\* C13: a successful delete(p) of a resident page writes nothing to the
\* disk, takes the frame out of the replacer and the page table, zeroes it,
\* gives it the invalid page id, dirty false and pin count 0, and appends it
\* to the free list; a fetch(p) from the resulting state reads p from disk.
C13_DeleteDiscards ==
    [][ \A p \in DOMAIN page_table :
          (DeleteStep(p) /\ pages[page_table[p]].pin_count_ = 0)
              => LET f == page_table[p]
                     r == FetchResult(St', p) IN
                 /\ disk' = disk /\ num_flushes' = num_flushes
                 /\ f \notin replacer'.lru_map
                 /\ p \notin DOMAIN page_table'
                 /\ pages'[f] = [data_ |-> [page_id |-> INVALID_PAGE_ID, payload |-> 0],
                                 pin_count_ |-> 0, is_dirty_ |-> FALSE]
                 /\ free_list' = Append(free_list, f)
                 /\ r.ok
                 /\ r.s.pages[r.s.page_table[p]].data_.payload = r.s.disk[p].payload ]_vars

\* the third call deleted the only page ever created, whose frame was dirty:
\* the frame is back at the end of the free list and nothing was written
C13_Witness ==
    /\ calls = 3 /\ next_page_id = 1 /\ num_flushes = 0
    /\ lastOp = Op("delete", INVALID_PAGE_ID, TRUE)
    /\ Len(free_list) = PoolSize /\ free_list[PoolSize] = 0
    /\ GetPageId(pages[0]) = INVALID_PAGE_ID

\* C14: page ids are handed out in increasing order from 0 and never
\* again: a successful new returns the number of successful news before it,
\* and no other call moves the allocation counter.
C14_IdsMonotonic ==
    [][ /\ (NewStep /\ lastOp'.ok)
            => /\ next_page_id' = next_page_id + 1
               /\ next_page_id \in DOMAIN page_table'
               /\ GetPageId(pages'[page_table'[next_page_id]]) = next_page_id
        /\ next_page_id' # next_page_id => (NewStep /\ lastOp'.ok) ]_vars

\* the third successful new has just returned id 2
C14_Witness ==
    /\ lastOp = Op("new", INVALID_PAGE_ID, TRUE)
    /\ next_page_id = 3
    /\ 2 \in DOMAIN page_table /\ GetPageId(pages[page_table[2]]) = 2

\* C15: a successful new returns a frame whose header holds the allocated
\* id, whose other bytes are zero, whose pin count is 1, that the page table
\* maps the new id to, and that neither the replacer nor the free list holds.
C15_NewPageFrame ==
    [][ (NewStep /\ lastOp'.ok)
          => /\ next_page_id \in DOMAIN page_table'
             /\ LET f == page_table'[next_page_id] IN
                /\ pages'[f].data_ = [page_id |-> next_page_id, payload |-> 0]
                /\ pages'[f].pin_count_ = 1
                /\ f \notin replacer'.lru_map
                /\ f \notin SeqElems(free_list') ]_vars

\* new has just handed out page 1 in a frame another page had written to
C15_Witness ==
    /\ lastOp = Op("new", INVALID_PAGE_ID, TRUE)
    /\ next_page_id = 2 /\ num_flushes >= 1
    /\ Len(free_list) = 0
    /\ 1 \in DOMAIN page_table /\ pages[page_table[1]].pin_count_ = 1
    /\ disk[0].payload = 1

\* C16: a page returned by new starts with its dirty flag false.
C16_NewPageClean ==
    [][ (NewStep /\ lastOp'.ok)
          => ~ pages'[page_table'[next_page_id]].is_dirty_ ]_vars

\* C17: fetch(p) of a resident page returns the frame that holds p, adds
\* one to its pin count, takes it out of the replacer, and leaves the disk,
\* the write counter, the buffer, the dirty flag and everything else as
\* they were.
C17_FetchHit ==
    [][ \A p \in DOMAIN page_table :
          FetchStep(p)
              => LET f == page_table[p] IN
                 /\ lastOp'.ok
                 /\ GetPageId(pages[f]) = p
                 /\ pages' = [pages EXCEPT ![f].pin_count_ = @ + 1]
                 /\ f \notin replacer'.lru_map
                 /\ replacer'.lru_list = SeqRemove(replacer.lru_list, f)
                 /\ UNCHANGED << disk, num_flushes, page_table, free_list,
                                 next_page_id >> ]_vars

\* the fourth call is a hit on a frame a caller had loaded, written to and
\* unpinned: the bytes are there though the disk never saw them
C17_Witness ==
    /\ lastOp = Op("fetch", INVALID_PAGE_ID, TRUE)
    /\ calls = 4 /\ num_flushes = 0 /\ replacer.lru_list = << >>
    /\ \E p \in DOMAIN page_table :
          /\ declared[p] # Undeclared /\ declared[p].payload = 1
          /\ pages[page_table[p]].data_ = declared[p]
          /\ pages[page_table[p]].pin_count_ = 1
          /\ disk[p].payload = 0

C19_FetchHeaderId ==
    [][ \A p \in PageIds :
          (FetchStep(p) /\ lastOp'.ok)
              => GetPageId(pages'[page_table'[p]]) = p ]_vars

\* the workers that hold a pin: between their fetch and their unpin
Holders == { t \in Threads : threads.w[t].pc = "unpin" }

\* C20: whatever the interleaving of the workers' fetch(p) / unpin(p, d)
\* rounds, no fetch fails, every fetch sees page id p in the frame, the pin
\* count of p is the number of successful fetches not yet followed by their
\* unpin, it is 0 when all workers are done, and the final fetch sees 1.
C20_PinCountUnderContention ==
    /\ threads.main # "final_failed"
    /\ threads.main \in {"run", "final"}
        => /\ ContentionPage \in DOMAIN page_table
           /\ \A t \in Threads :
                /\ threads.w[t].pc # "terminated"
                /\ (threads.w[t].pc = "unpin" \/ threads.w[t].iter > 0)
                       => threads.w[t].seen = ContentionPage
           /\ pages[page_table[ContentionPage]].pin_count_
                  = Cardinality(Holders) + (IF threads.main = "final" THEN 1 ELSE 0)
           /\ (\A t \in Threads : threads.w[t].pc = "done" /\ threads.w[t].iter = Iterations)
                  => pages[page_table[ContentionPage]].pin_count_
                         = (IF threads.main = "final" THEN 1 ELSE 0)

\* all workers have made all their rounds and the final fetch sees pin 1
C20_Witness ==
    /\ threads.main = "final"
    /\ \A t \in Threads : threads.w[t].pc = "done" /\ threads.w[t].iter = Iterations
    /\ pages[page_table[ContentionPage]].pin_count_ = 1

\* C21: under every interleaving of NumThreads > PoolSize workers that each
\* repeat NewPage and, when it succeeded, UnpinPage(id, true): the
\* identifiers returned by the successful NewPage calls are pairwise
\* distinct, a NewPage returns nullptr only from a state in which every frame
\* is pinned, and once all workers are done a further NewPage succeeds.
C21_BufferFullRace ==
    /\ [](threads.main \in {"race", "final", "final_failed"}
            => /\ \A i, j \in DOMAIN threads.made :
                    i # j => threads.made[i] # threads.made[j]
               /\ threads.main # "final_failed"
               /\ (threads.main = "race" /\ \A t \in Threads : threads.w[t].pc = "done")
                      => /\ \A f \in Frames : pages[f].pin_count_ = 0
                         /\ NewResult(St).ok)
    /\ [][(lastOp'.op = "new" /\ ~ lastOp'.ok) => AllPinned]_vars

\* the race is over, some worker was refused a frame on the way, frames were
\* reused, and the final NewPage succeeded
C21_Witness ==
    /\ threads.main = "final"
    /\ Len(threads.made) < NumThreads * Iterations + 1
    /\ Len(threads.made) > PoolSize

\* the next event of thread t can happen
CanStep(t) ==
    /\ threads.w[t].todo # << >>
    /\ Head(threads.w[t].todo).e = "acq"
          => threads.owner[Head(threads.w[t].todo).l] = LockFree

\* C22: a thread asks for latch_ only while it holds no lock, for mutex_
\* only while it holds nothing but latch_, and for db_io_latch_ only while it
\* holds nothing but latch_ (mutex_ has been released by then); whenever some
\* call is under way some thread can take its next step (no deadlock), and a
\* thread that has returned from its call holds no lock.
C22_LockOrder ==
    threads.main = "locks" =>
      /\ \A t \in Lockers :
           /\ (threads.w[t].todo # << >> /\ Head(threads.w[t].todo).e = "acq")
                 => LET l == Head(threads.w[t].todo).l IN
                    /\ l = "latch_" => Held(t) = {}
                    /\ l = "mutex_" => Held(t) \subseteq {"latch_"}
                    /\ l = "db_io_latch_" => Held(t) \subseteq {"latch_"}
           /\ threads.w[t].todo = << >> => Held(t) = {}
      /\ (\E t \in Lockers : threads.w[t].todo # << >>)
            => \E t \in Lockers : CanStep(t)

\* a fetch that evicts a dirty victim is inside WritePage, holding latch_ and
\* db_io_latch_ after Victim gave mutex_ back, while the other thread waits
\* for latch_ at the top of its own call
C22_Witness ==
    /\ threads.main = "locks"
    /\ threads.w[1].op.op = "fetch"
    /\ Held(1) = {"latch_", "db_io_latch_"}
    /\ Len(threads.w[1].todo) = 6
    /\ threads.w[2].pc = "enter"

\* page p is resident in frame f
Holds(f, p) == p \in DOMAIN page_table /\ page_table[p] = f

\* C23: a successful unpin(p, true) leaves p's frame dirty; a dirty frame
\* stays dirty, and keeps its page, through every fetch(p) and unpin(p, d) of
\* its page, successful or not; and the flag of a frame goes from true to
\* false only in a flush of its page, a flush-all, a delete of its page, or
\* an eviction (a new or a fetch miss) that wrote to the disk.  Calls being
\* atomic under latch_, unpins of one page by several threads are a sequence
\* of such steps, so one successful unpin(p, true) among them leaves the flag
\* true.
C23_DirtySticky ==
    [][ \A p \in PageIds, f \in Frames :
          /\ (UnpinStep(p, TRUE) /\ lastOp'.ok /\ Holds(f, p))
                => pages'[f].is_dirty_
          /\ (Holds(f, p) /\ pages[f].is_dirty_
                /\ (FetchStep(p) \/ UnpinStep(p, TRUE) \/ UnpinStep(p, FALSE)))
                => (Holds(f, p)' /\ pages'[f].is_dirty_)
          /\ (pages[f].is_dirty_ /\ ~ pages'[f].is_dirty_)
                => \/ \E q \in PageIds : Holds(f, q) /\ (FlushStep(q) \/ DeleteStep(q))
                   \/ FlushAllStep
                   \/ MissStep /\ num_flushes' = num_flushes + 1 ]_vars

\* a page that came in by fetch (none was ever created) was pinned twice and
\* unpinned twice, at least once with is_dirty = true, and is dirty
C23_Witness ==
    /\ calls = 4
    /\ next_page_id = 0
    /\ lastOp = Op("unpin", 0, TRUE)
    /\ \E p \in PageIds :
         /\ DOMAIN page_table = {p}
         /\ pages[page_table[p]].pin_count_ = 0
         /\ pages[page_table[p]].is_dirty_
         /\ declared[p] # Undeclared

\* the replacer found by the i-th call of the script, and the one it left
ReplBefore(i) == IF i = 1 THEN EmptyReplacer ELSE threads.log[i - 1].after

ReplAfter(i) == threads.log[i].after

\* the calls i .. i + Len(pat) - 1 have been made, they are the calls pat,
\* and the first of them found an empty replacer
Ran(i, pat) ==
    /\ i + Len(pat) - 1 <= Len(threads.log)
    /\ SubSeq(threads.script, i, i + Len(pat) - 1) = pat
    /\ ReplacerSize(ReplBefore(i)) = 0

\* what the calls i .. j returned: the victim, or NoFrame for "no victim"
Returned(i, j) == [k \in 1 .. (j - i + 1) |-> threads.log[i + k - 1].frame]

Triples == { x \in ReplFrames \X ReplFrames \X ReplFrames : Distinct(x) }

\* C24: on an empty replacer, after Unpin(a), Unpin(b), Unpin(c) of distinct
\* frames the Victim calls return a, b, c in that order, each taking the
\* returned frame out of the replacer, and a fourth Victim reports no victim
\* and leaves the replacer as it was.
C24_VictimOrder ==
    threads.main = "replacer" =>
      \A t \in Triples, i \in 1 .. 2 :
         Ran(i, ScriptVictimOrder(t[1], t[2], t[3]))
            => /\ Returned(i + 3, i + 6) = << t[1], t[2], t[3], NoFrame >>
               /\ \A k \in 3 .. 5 :
                    /\ threads.log[i + k].found
                    /\ ReplacerSize(ReplAfter(i + k)) = ReplacerSize(ReplBefore(i + k)) - 1
                    /\ threads.log[i + k].frame \notin SeqElems(Drain(ReplAfter(i + k)))
               /\ ~ threads.log[i + 6].found
               /\ ReplAfter(i + 6) = ReplBefore(i + 6)
               /\ ReplacerSize(ReplAfter(i + 6)) = 0

\* TestVictimOrder has run to its end, after an earlier call that left the
\* replacer empty
C24_Witness ==
    /\ threads.main = "replacer"
    /\ \E t \in Triples : Ran(2, ScriptVictimOrder(t[1], t[2], t[3]))

\* C25 as stated: on an empty replacer, after Unpin(a), Unpin(b), Pin(a),
\* Unpin(c) the three Victim calls return b, then c, then a.
C25_PinBetweenReturnsPinned ==
    threads.main = "replacer" =>
      \A t \in Triples, i \in 1 .. 2 :
         Ran(i, ScriptPinBetween(t[1], t[2], t[3]))
            => /\ Returned(i + 4, i + 6) = << t[2], t[3], t[1] >>
               /\ \A k \in 4 .. 6 : threads.log[i + k].found

\* C25, amended: on an empty replacer, after Unpin(a), Unpin(b), Pin(a),
\* Unpin(c) the Victim calls return b, then c, and the third reports no
\* victim: a was taken out by Pin(a) and has not been unpinned since.
C25_PinBetween ==
    threads.main = "replacer" =>
      \A t \in Triples, i \in 1 .. 2 :
         Ran(i, ScriptPinBetween(t[1], t[2], t[3]))
            => /\ Returned(i + 4, i + 6) = << t[2], t[3], NoFrame >>
               /\ threads.log[i + 4].found /\ threads.log[i + 5].found
               /\ ~ threads.log[i + 6].found
               /\ ReplacerSize(ReplAfter(i + 6)) = 0

\* the scenario has run to its end on a fresh replacer
C25_Witness ==
    /\ threads.main = "replacer"
    /\ \E t \in Triples : Ran(1, ScriptPinBetween(t[1], t[2], t[3]))

\* C26: Pin(f) of a frame in the replacer takes it out: no Victim returns f
\* before a later Unpin(f), and the victim order of the other frames is what
\* it was (Unpin of a..e, Pin(c), Pin(d) gives victims a, b, e, then none);
\* Pin(x) of a frame that is not in the replacer changes neither the size nor
\* the victim order.
C26_PinRemoves ==
    threads.main = "replacer" =>
      /\ \A i \in 1 .. Len(threads.log) :
           threads.script[i].op = "pin"
              => LET f == threads.script[i].f IN
                 /\ Drain(ReplAfter(i)) = SeqRemove(Drain(ReplBefore(i)), f)
                 /\ f \notin SeqElems(Drain(ReplBefore(i)))
                       => /\ ReplacerSize(ReplAfter(i)) = ReplacerSize(ReplBefore(i))
                          /\ Drain(ReplAfter(i)) = Drain(ReplBefore(i))
                 /\ \A j \in (i + 1) .. Len(threads.log) :
                       (threads.script[j].op = "victim" /\ threads.log[j].frame = f)
                          => \E k \in (i + 1) .. (j - 1) : threads.script[k] = U(f)
      /\ \A i \in 1 .. 2 :
           (i + 4 <= Len(threads.script)
              /\ LET t == [k \in 1 .. 5 |-> threads.script[i + k - 1].f] IN
                 Distinct(t) /\ Ran(i, ScriptPinning(t[1], t[2], t[3], t[4], t[5])))
              => Returned(i + 7, i + 10)
                    = << threads.script[i].f, threads.script[i + 1].f,
                         threads.script[i + 4].f, NoFrame >>

\* TestPinning has run to its end
C26_Witness ==
    /\ threads.main = "replacer"
    /\ Ran(1, ScriptPinning(1, 2, 3, 4, 5))

\* C27: a frame that is unpinned, pinned and unpinned again is the most
\* recently used one: after Unpin(a), Unpin(b), Unpin(c), Pin(a), Unpin(a) on
\* an empty replacer the victims are b, c, a in that order.
C27_ReAccess ==
    threads.main = "replacer" =>
      /\ \A t \in Triples, i \in 1 .. 2 :
           Ran(i, ScriptReAccess(t[1], t[2], t[3]))
              => /\ Returned(i + 5, i + 7) = << t[2], t[3], t[1] >>
                 /\ \A k \in 5 .. 7 : threads.log[i + k].found
      /\ \A i \in 1 .. Len(threads.log) :
           (threads.script[i].op = "unpin"
              /\ threads.script[i].f \notin SeqElems(Drain(ReplBefore(i))))
              => Drain(ReplAfter(i)) = Drain(ReplBefore(i)) \o << threads.script[i].f >>

\* TestReAccess has run to its end
C27_Witness ==
    /\ threads.main = "replacer"
    /\ Ran(1, ScriptReAccess(1, 2, 3))

\* C28: Unpin(f) of a frame that is already in the replacer does nothing:
\* the size is the same, f is there once, and the victim order is the same
\* (f is not moved to the most recently used end).
C28_UnpinTrackedNoop ==
    threads.main = "replacer" =>
      \A i \in 1 .. Len(threads.log) :
         (threads.script[i].op = "unpin"
            /\ threads.script[i].f \in SeqElems(Drain(ReplBefore(i))))
            => /\ ReplacerSize(ReplAfter(i)) = ReplacerSize(ReplBefore(i))
               /\ Drain(ReplAfter(i)) = Drain(ReplBefore(i))
               /\ Distinct(Drain(ReplAfter(i)))
               /\ Len(Drain(ReplAfter(i))) = ReplacerSize(ReplAfter(i))

\* Unpin(a), Unpin(b), Unpin(a) were followed by Victim calls returning
\* a, b and then none
C28_Witness ==
    /\ threads.main = "replacer"
    /\ \E a, b \in ReplFrames :
         /\ a # b
         /\ Ran(1, ScriptUnpinTwice(a, b))
         /\ Returned(4, 6) = << a, b, NoFrame >>

\* C29: right after the pool was destroyed and a new DiskManager and
\* BufferPoolManager were opened on the same file, a fetch of any page whose
\* bytes were declared by unpin(p, true), and that was not written to,
\* created anew or deleted since, succeeds and returns exactly those bytes,
\* whether or not the page was ever flushed or evicted before the shutdown.
C29_ShutdownFlushes ==
    lastOp.op = "restart" =>
      \A p \in PageIds :
         declared[p] # Undeclared
            => LET r == FetchResult(St, p) IN
               /\ r.ok
               /\ r.s.pages[r.s.page_table[p]].data_ = declared[p]

\* fetch(p) of a resident page followed by unpin(p, false), as a function of
\* the state, in the build at hand
Touch(s, p) ==
    IF impl = "lru"
    THEN UnpinResult(FetchResult(s, p).s, p, FALSE).s
    ELSE LET f  == s.page_table[p]
             s1 == [s EXCEPT !.pages[f].pin_count_ = @ + 1]
         IN [s1 EXCEPT !.pages[f].pin_count_ = IF @ > 0 THEN @ - 1 ELSE @]

\* the frames a new or a fetch miss made in state s may take
EvictionChoices(s) ==
    IF impl = "lru"
    THEN IF FindFreeFrame(s).found THEN {FindFreeFrame(s).frame_id} ELSE {}
    ELSE { r.frame_id : r \in LegacyObtain(s) }

\* C30: with the free list empty and two resident pages p and q at pin count
\* 0, a fetch(p) hit followed by unpin(p) makes p the most recently used of
\* the two, so that the next new or fetch miss does not evict p.
C30_EvictsLeastRecent ==
    \A p, q \in DOMAIN page_table :
       (/\ free_list = << >>
        /\ page_table[p] # page_table[q]
        /\ pages[page_table[p]].pin_count_ = 0
        /\ pages[page_table[q]].pin_count_ = 0)
          => page_table[p] \notin EvictionChoices(Touch(St, p))

\* C31: while the free list is non-empty a new or a fetch miss succeeds with
\* the frame at the head of the free list, which it pops and hands out with
\* pin count 1, and evicts nothing: every page that had a page-table entry
\* still has one, and the replacer is unchanged, unpinned resident pages or
\* not.
C31_FreeListFirst ==
    [][ (free_list # << >> /\ MissStep)
          => /\ lastOp'.ok
             /\ free_list' = Tail(free_list)
             /\ pages'[Head(free_list)].pin_count_ = 1
             /\ \E p \in DOMAIN page_table' : page_table'[p] = Head(free_list)
             /\ replacer' = replacer
             /\ \A p \in DOMAIN page_table : p \in DOMAIN page_table' ]_vars

\* what the frame-finding helper of the build at hand hands back to new /
\* fetch in state s: FindFreeFrame (LRU build), or the free-list pop followed
\* by FindVictim (legacy build)
HelperResults(s) ==
    IF impl = "lru"
    THEN IF FindFreeFrame(s).found
         THEN { [frame_id |-> FindFreeFrame(s).frame_id, s |-> FindFreeFrame(s).s] }
         ELSE {}
    ELSE LegacyObtain(s)

\* C32 as stated: the helper that finds the frame only chooses it: when it
\* returns, the disk, the write counter and the page table are as it found
\* them.
C32_FindVictimOnlyChooses ==
    \A r \in HelperResults(St) :
        /\ r.s.disk = disk
        /\ r.s.num_flushes = num_flushes
        /\ r.s.page_table = page_table

\* C32, amended: choosing the victim (LRUReplacer::Victim, FindVictim) only
\* takes a frame with pin count 0 out of the candidates; the write-back of a
\* dirty victim at its header page id and the erasure of its page-table entry
\* happen within the very new / fetch that obtained the frame (in the LRU
\* build inside FindFreeFrame, before it returns), and a clean victim is not
\* written.
C32_WriteBackInSameCall ==
    [][ (free_list = << >> /\ MissStep /\ lastOp'.ok)
          => \E f \in EvictionChoices(St) :
                LET old == GetPageId(pages[f]) IN
                /\ pages[f].pin_count_ = 0
                /\ pages'[f].pin_count_ = 1
                /\ f \notin replacer'.lru_map
                /\ (impl = "lru" =>
                      /\ f = ReplacerVictimFrame(replacer)
                      /\ replacer' = ReplacerVictim(replacer))
                /\ (old \in DOMAIN page_table' => page_table'[old] = f)
                /\ IF pages[f].is_dirty_
                   THEN /\ num_flushes' > num_flushes
                        /\ old \in DOMAIN disk => disk' = [disk EXCEPT ![old] = pages[f].data_]
                   ELSE disk' = disk /\ num_flushes' = num_flushes ]_vars

\* the second page loaded was written to and unpinned dirty, and the fetch
\* miss that followed took its frame and wrote it back: the one disk write
\* there was carries the caller's bytes
C32_Witness ==
    /\ lastOp = Op("fetch", INVALID_PAGE_ID, TRUE)
    /\ free_list = << >>
    /\ num_flushes >= 1
    /\ Cardinality(DOMAIN page_table) = PoolSize
    /\ \E p \in PageIds : p \notin DOMAIN page_table /\ disk[p].payload = 1

\* C33: a new or a fetch miss that takes a dirty victim issues exactly one
\* disk write, of the victim's whole buffer at the victim's page id, and the
\* write counter goes up by one; with a clean victim, or a frame from the
\* free list, it writes nothing and the counter stays.
C33_OneWritePerEviction ==
    [][ (MissStep /\ lastOp'.ok)
          => IF free_list # << >>
             THEN disk' = disk /\ num_flushes' = num_flushes
             ELSE \E f \in EvictionChoices(St) :
                     /\ pages'[f].pin_count_ = 1
                     /\ IF pages[f].is_dirty_
                        THEN /\ num_flushes' = num_flushes + 1
                             /\ GetPageId(pages[f]) \in DOMAIN disk
                                  => disk' = [disk EXCEPT ![GetPageId(pages[f])] = pages[f].data_]
                        ELSE disk' = disk /\ num_flushes' = num_flushes ]_vars

\* C34: an unpin or a flush that returns false changes nothing, no pin
\* count, dirty flag, page-table entry, replacer membership or disk byte; and
\* unpin(p, d) of a resident page whose pin count is 0 is such a call: it
\* returns false and the frame's dirty flag stays as it was.
C34_RefusalChangesNothing ==
    [][ \A p \in PageIds :
          /\ ((FlushStep(p) \/ UnpinStep(p, TRUE) \/ UnpinStep(p, FALSE)) /\ ~ lastOp'.ok)
                => UNCHANGED BpmVars
          /\ ((UnpinStep(p, TRUE) \/ UnpinStep(p, FALSE))
                /\ p \in DOMAIN page_table /\ pages[page_table[p]].pin_count_ = 0)
                => /\ ~ lastOp'.ok
                   /\ pages'[page_table[p]].is_dirty_ = pages[page_table[p]].is_dirty_ ]_vars

\* C35: whenever a call changes the bytes the disk holds for a page q, the
\* new bytes are those of the frame the page table held under q when the
\* call began; and a new or a fetch miss that takes a victim removes no
\* page-table entry but the one that pointed at the victim's frame.
C35_WritesAtOwnOffset ==
    [][ /\ \A q \in DOMAIN disk :
             disk'[q] # disk[q]
                => /\ q \in DOMAIN page_table
                   /\ disk'[q] = pages[page_table[q]].data_
        /\ (free_list = << >> /\ MissStep /\ lastOp'.ok)
             => \E f \in EvictionChoices(St) :
                   /\ pages'[f].pin_count_ = 1
                   /\ \A q \in DOMAIN page_table :
                         page_table[q] # f => q \in DOMAIN page_table' ]_vars

\* C36: a new or a fetch miss that takes from the free list a frame that is
\* as new Page[pool_size_] may have left it, whatever its buffer holds (no
\* page was ever loaded into it), writes nothing to the
\* disk and erases no page-table entry.
C36_UnusedFrameHarmless ==
    [][ (/\ free_list # << >>
         /\ \E init \in FreshPages : pages[Head(free_list)] = init[Head(free_list)]
         /\ MissStep /\ lastOp'.ok)
          => /\ disk' = disk
             /\ num_flushes' = num_flushes
             /\ \A q \in DOMAIN page_table : q \in DOMAIN page_table' ]_vars

\* C37: a new that returns null allocated nothing and changed nothing, the
\* allocation counter included; a successful new returns the counter's value
\* and adds one to it, and no other call moves the counter: so the first
\* successful new after a refused one returns the identifier that follows the
\* last one handed out.
C37_FailedNewAllocatesNothing ==
    [][ /\ (NewStep /\ ~ lastOp'.ok)
            => /\ UNCHANGED BpmVars
               /\ UNCHANGED declared
               /\ free_list = << >>
               /\ \A f \in Frames : Resident(f) => pages[f].pin_count_ > 0
        /\ (NewStep /\ lastOp'.ok)
            => /\ next_page_id' = next_page_id + 1
               /\ next_page_id \in DOMAIN page_table'
               /\ GetPageId(pages'[page_table'[next_page_id]]) = next_page_id
        /\ (~ NewStep) => next_page_id' = next_page_id ]_vars

\* new succeeded PoolSize times, returning 0 .. PoolSize - 1 with nothing
\* unpinned, and the call after those was refused
C37_Witness ==
    /\ lastOp = Op("new", INVALID_PAGE_ID, FALSE)
    /\ calls = PoolSize + 1
    /\ next_page_id = PoolSize
    /\ AllPinned
    /\ \A p \in 0 .. (PoolSize - 1) : p \in DOMAIN page_table

\* what the latest WritePage(p, ..) wrote, zeros when there was none
LatestWrite(p) == IF declared[p] = Undeclared THEN ZeroData ELSE declared[p]

\* C38: after any sequence of WritePage and ReadPage calls, ReadPage(p)
\* yields the buffer of the latest WritePage(p, ..), whatever was written to
\* other pages since, and all zeros when p was never written, be it at or
\* beyond end-of-file or in a gap below it.
C38_SlotsIndependent ==
    threads.main = "disk" =>
      /\ \A p \in DiskPageIds : ReadPage(St, p) = LatestWrite(p)
      /\ lastOp.op = "read" => threads.read.data = LatestWrite(threads.read.page_id)

\* three writes left different non-zero buffers in pages 1 and 2; page 0, in
\* the gap below them, was never written, and the read that came last found
\* zeros there
C38_Witness ==
    /\ threads.main = "disk"
    /\ lastOp = Op("read", 0, TRUE)
    /\ calls = MaxDiskCalls
    /\ threads.read = [page_id |-> 0, data |-> ZeroData]
    /\ declared[0] = Undeclared
    /\ DOMAIN disk = 0 .. 2
    /\ declared[1] # Undeclared /\ declared[1] # ZeroData
    /\ declared[2] # Undeclared /\ declared[2] # ZeroData /\ declared[2] # declared[1]
    /\ num_flushes = 3

\* C39: right after the DiskManager and the pool were destroyed and opened
\* again on the same file, the allocation counter is back at 0, so that the
\* first new returns page id 0 whatever the file holds for page 0, while a
\* fetch of any page returns the payload the file holds for it; the shutdown
\* itself leaves the file as it was except for the dirty resident pages it
\* writes.
C39_CounterNotPersisted ==
    /\ [](lastOp.op = "restart"
            => /\ next_page_id = 0
               /\ NewResult(St).ok
               /\ NewResult(St).page_id = 0
               /\ \A p \in PageIds :
                     LET r == FetchResult(St, p) IN
                     /\ r.ok
                     /\ r.s.pages[r.s.page_table[p]].data_ = [disk[p] EXCEPT !.page_id = p]
                     /\ r.s.disk = disk)
    /\ [][ Restart
             => \A p \in PageIds :
                   disk'[p] = IF p \in DOMAIN page_table /\ pages[page_table[p]].is_dirty_
                              THEN pages[page_table[p]].data_
                              ELSE disk[p] ]_vars

\* the first new after a restart has returned id 0 for a blank page, while
\* the file holds a page 0 with a caller's bytes, and another page written
\* before the restart is back in the pool with its bytes
C39_Witness ==
    /\ threads.main = "restarted"
    /\ lastOp = Op("fetch", INVALID_PAGE_ID, TRUE)
    /\ next_page_id = 1
    /\ 0 \in DOMAIN page_table
    /\ pages[page_table[0]].data_ = NewPageData(0)
    /\ disk[0] = [page_id |-> 0, payload |-> 1]
    /\ \E p \in DOMAIN page_table :
          /\ p # 0
          /\ disk[p] = [page_id |-> p, payload |-> 1]
          /\ pages[page_table[p]].data_ = disk[p]

\* the replacer a call of o leaves when it runs alone on replacer r
SeqEffect(o, r) ==
    CASE o.op = "victim" -> ReplacerVictim(r)
      [] o.op = "pin" -> ReplacerPin(r, o.f)
      [] o.op = "unpin" -> ReplacerUnpin(r, o.f)
      [] o.op = "size" -> r

\* and what that call returns
SeqReturn(o, r) ==
    CASE o.op = "victim" ->
           IF ReplacerVictimFound(r)
           THEN [found |-> TRUE, frame |-> ReplacerVictimFrame(r), n |-> 0]
           ELSE NoRet
      [] o.op = "size" -> [found |-> TRUE, frame |-> NoFrame, n |-> ReplacerSize(r)]
      [] OTHER -> NoRet

\* C40: whatever the interleaving of the threads' Victim / Pin / Unpin / Size
\* calls, lru_list_ never holds a frame twice; whenever no call is inside the
\* replacer the keys of lru_map_ are the elements of lru_list_; a call that
\* returns leaves the replacer, and returns the value, that the same call
\* would running alone on the replacer it found when it got mutex_ (so Size
\* returns the number of tracked frames); and Victim never hands out a frame
\* that an earlier Victim handed out and no Unpin has named since.
C40_ReplacerAtomic ==
    /\ [](threads.main = "conc"
            => /\ Distinct(replacer.lru_list)
               /\ threads.owner = LockFree
                    => /\ SeqElems(replacer.lru_list) = replacer.lru_map
                       /\ threads.out \cap replacer.lru_map = {})
    /\ [][ \A t \in ConcThreads :
             /\ ConcUnlock(t)
                  => /\ replacer = SeqEffect(threads.w[t].op, threads.w[t].before)
                     /\ threads.w[t].ret = SeqReturn(threads.w[t].op, threads.w[t].before)
             /\ (ConcList(t) /\ threads.w[t].op = V /\ replacer.lru_list # << >>)
                  => replacer.lru_list[Len(replacer.lru_list)] \notin threads.out ]_vars

\* one thread is inside Unpin, past its change of lru_list_ and before that
\* of lru_map_, while the other waits for mutex_ with a Victim call, after a
\* Victim call has already handed a frame out
C40_Witness ==
    /\ threads.main = "conc"
    /\ threads.out # {}
    /\ \E t, u \in ConcThreads :
          /\ threads.owner = t
          /\ threads.w[t].pc = "map" /\ threads.w[t].op.op = "unpin"
          /\ SeqElems(replacer.lru_list) # replacer.lru_map
          /\ threads.w[u].pc = "lock" /\ threads.w[u].op = V

====
